---- MODULE Spec2Model ----
(***************************************************************************)
(* Verification model of highfleet-qol.                                    *)
(*                                                                         *)
(* Part E: the std::map compatible red-black tree of src/structs/tll.rs    *)
(* (TllContainer / Tll).  The heap is a function from addresses to node    *)
(* records; every pointer field holds an address.  The algorithm compares  *)
(* pointers only for equality, so malloc is modelled as handing out, for   *)
(* the node of key k, the address NodeAddr(k), which is never in use       *)
(* before (one node per key, nodes are never freed).                       *)
(*                                                                         *)
(* Part D: the patch manager of src/patchy.rs (patch_call, overwrite), on  *)
(* the bytes of the site and of the trampoline, with a processor for the   *)
(* instructions the trampoline is made of.  search_memory_cave walks the   *)
(* addresses around the site over a set of unmapped addresses; addresses   *)
(* are 64-bit, kept as eight little-endian bytes.  Two threads that each   *)
(* run one of the two routines share the protection of the pages and the   *)
(* address space; every statement of a routine is one step.                *)
(*                                                                         *)
(* The C-compatible vector of src/structs/cvec.rs (CVec), on a heap of     *)
(* blocks that malloc and realloc hand out.                                *)
(*                                                                         *)
(* The library entry points of src/lib.rs: version, and init with the      *)
(* configuration of src/config.rs and the features of src/dumpable.rs,     *)
(* src/zoom.rs and src/guns.rs, each of which runs the patch manager; the  *)
(* routines the patched host code calls (set_zoom_level, calc_zoom_value). *)
(* Floats are kept in tenths.                                              *)
(***************************************************************************)
EXTENDS Integers, Sequences, FiniteSets, TLC

\* ------------------------------------------------------------------ bounds
\* Keys of the structural specifications (Spec, SpecHost); keys and values of
\* the specification that also follows the stored values (SpecData).
MaxKey == 9
MaxDataKey == 4
MaxHostKey == 7
MaxVal == 2

Keys == 1..MaxKey
DataKeys == 1..MaxDataKey
HostKeys == 1..MaxHostKey
Vals == 1..MaxVal

\* ------------------------------------------------------- addresses, options
SentinelAddr == 0
NodeAddr(k) == k
None == -1
DefaultKey == 0
DefaultData == 0

\* The tree.
VARIABLES sentinel, size, heap, panicked, inserted, last

\* The patch manager (part D, src/patchy.rs): the control point of the patch
\* routine, the bytes at the site, the protection of the site's page, the
\* arguments and locals of the call, the trampoline mapping, the returned
\* Patch, and the outcome of running the trampoline.
VARIABLES pc, site, prot, frame, mmap, patch, cpu

\* The address space of the process, as far as search_memory_cave can tell:
\* the addresses at which MemoryAreas::query finds no mapping.
VARIABLES areas

\* The latest call of search_memory_cave on its own: anchor and result.
VARIABLES scan

\* Two threads that each run patch_call or overwrite: the protection of the
\* pages of their sites and, per thread, its control point, arguments and
\* locals, the bytes at its site and its mapping.
VARIABLES race

\* A CVec (src/structs/cvec.rs): its three pointers, the blocks of the C
\* heap, the items pushed so far, and whether a push panicked.
VARIABLES cvec, c_heap, pushed, cstatus

\* The library (src/lib.rs): the version features it was built with and the
\* latest call of version.
VARIABLES feature, vcall

\* init (src/lib.rs): its control point, the configuration in use, the
\* configuration file, the log, the locals of the patch routine it is in, and
\* the patches it leaked.  The globals of src/zoom.rs, and the latest call the
\* host made to one of the injected routines.
VARIABLES ipc, config, file, log, locals, installed, zoom, hcall

tvars == <<sentinel, size, heap, panicked, inserted, last>>

\* What the patch manager leaves alone.
cvars == <<cvec, c_heap, pushed, cstatus>>

lvars == <<ipc, config, file, log, locals, installed, zoom, hcall>>

ivars == <<feature, vcall, lvars>>

\* The variables of the patch manager.
mvars == <<pc, site, prot, frame, mmap, patch, cpu, areas>>

xvars == <<scan, cvars, ivars, race>>

\* What the tree leaves alone.
pvars == <<pc, site, prot, frame, mmap, patch, cpu, areas, xvars>>

vars == <<sentinel, size, heap, panicked, inserted, last,
          pc, site, prot, frame, mmap, patch, cpu, areas, scan,
          cvec, c_heap, pushed, cstatus, feature, vcall,
          ipc, config, file, log, locals, installed, zoom, hcall, race>>

\* search_memory_cave was not called on its own.
NoScan == scan = [called |-> FALSE]

\* No two threads run the patch routines.
NoRace == race = [on |-> FALSE]

\* No CVec was made.
NoCVec ==
    /\ cvec = [made |-> FALSE]
    /\ c_heap = <<>>
    /\ pushed = <<>>
    /\ cstatus = "ok"

\* init was not called.
NoLibrary ==
    /\ ipc = "none"
    /\ config = [loaded |-> FALSE]
    /\ file = [kind |-> "missing"]
    /\ log = <<>>
    /\ locals = [old_protect |-> "0"]
    /\ installed = {}
    /\ zoom = [written |-> FALSE]
    /\ hcall = [routine |-> "none"]

\* The library was not called.
NoInit ==
    /\ feature = {}
    /\ vcall = [called |-> FALSE]
    /\ NoLibrary

NoExtra ==
    /\ NoRace
    /\ NoScan
    /\ NoCVec
    /\ NoInit

\* No patch routine was called.
NoPatch ==
    /\ pc = "idle"
    /\ site = <<>>
    /\ prot = "PAGE_EXECUTE_READ"
    /\ frame = [op |-> "none"]
    /\ mmap = [mapped |-> FALSE]
    /\ patch = [returned |-> FALSE]
    /\ cpu = [ran |-> FALSE]
    /\ areas = {}
    /\ NoExtra

\* ------------------------------------------------------------ constructors
\* Tll::new: a red, non-sentinel node whose three links are the sentinel.
Tll_new_black(key, value, s) ==
    [left |-> s, parent |-> s, right |-> s, is_red |-> FALSE,
     is_sentinel |-> FALSE, key |-> key, data |-> value]

Tll_new(key, value, s) ==
    [left |-> s, parent |-> s, right |-> s, is_red |-> TRUE,
     is_sentinel |-> FALSE, key |-> key, data |-> value]

\* TllContainer::new: one sentinel node linked to itself, size 0.
TllContainer_new ==
    [sentinel |-> SentinelAddr,
     size     |-> 0,
     heap     |-> (SentinelAddr :>
                     [left |-> SentinelAddr, parent |-> SentinelAddr,
                      right |-> SentinelAddr, is_red |-> FALSE,
                      is_sentinel |-> TRUE, key |-> DefaultKey,
                      data |-> DefaultData])]

\* ---------------------------------------------------------------- helpers
\* Tll::grandparent
grandparent_sentinel(h, n) ==
    IF h[h[n].parent].is_sentinel
    THEN None
    ELSE h[h[n].parent].parent

grandparent(h, n) ==
    IF h[h[n].parent].is_sentinel \/ h[h[h[n].parent].parent].is_sentinel
    THEN None
    ELSE h[h[n].parent].parent

\* Tll::rotate_left, the writes in program order.
rotate_left_orphan(h, self, s) ==
    LET x      == h[self].right
        y      == h[x].left
        parent == h[self].parent
        h1 == [h  EXCEPT ![x].left = self]
        h2 == [h1 EXCEPT ![self].right = y]
        h3 == [h2 EXCEPT ![x].parent = parent]
        h4 == [h3 EXCEPT ![self].parent = x]
    IN  IF h4[parent].is_sentinel
        THEN [h4 EXCEPT ![s].parent = x]
        ELSE IF h4[parent].left = self
             THEN [h4 EXCEPT ![parent].left = x]
             ELSE [h4 EXCEPT ![parent].right = x]

rotate_left(h, self, s) ==
    LET x      == h[self].right
        y      == h[x].left
        parent == h[self].parent
        h1 == [h  EXCEPT ![x].left = self]
        h2 == [h1 EXCEPT ![self].right = y]
        h3 == [h2 EXCEPT ![x].parent = parent]
        h4 == [h3 EXCEPT ![self].parent = x]
        h5 == IF ~h4[y].is_sentinel THEN [h4 EXCEPT ![y].parent = self] ELSE h4
    IN  IF h5[parent].is_sentinel
        THEN [h5 EXCEPT ![s].parent = x]
        ELSE IF h5[parent].left = self
             THEN [h5 EXCEPT ![parent].left = x]
             ELSE [h5 EXCEPT ![parent].right = x]

\* Tll::rotate_right, the mirror image.
rotate_right(h, self, s) ==
    LET x      == h[self].left
        y      == h[x].right
        parent == h[self].parent
        h1 == [h  EXCEPT ![x].right = self]
        h2 == [h1 EXCEPT ![self].left = y]
        h3 == [h2 EXCEPT ![x].parent = parent]
        h4 == [h3 EXCEPT ![self].parent = x]
        h5 == IF ~h4[y].is_sentinel THEN [h4 EXCEPT ![y].parent = self] ELSE h4
    IN  IF h5[parent].is_sentinel
        THEN [h5 EXCEPT ![s].parent = x]
        ELSE IF h5[parent].left = self
             THEN [h5 EXCEPT ![parent].left = x]
             ELSE [h5 EXCEPT ![parent].right = x]

\* The three colour writes of the red-uncle case, in program order.
recolor_uncle(h, parent, uncle, gp) ==
    LET h1 == [h  EXCEPT ![parent].is_red = FALSE]
        h2 == [h1 EXCEPT ![uncle].is_red = FALSE]
    IN  [h2 EXCEPT ![gp].is_red = TRUE]

\* The two colour writes that precede the outer rotation.
recolor_rotate_parent_only(h, parent, gp) ==
    [h EXCEPT ![parent].is_red = FALSE]

recolor_rotate(h, parent, gp) ==
    LET h1 == [h EXCEPT ![parent].is_red = FALSE]
    IN  [h1 EXCEPT ![gp].is_red = TRUE]

\* The test in front of the inner rotation on the left side:
\* std::ptr::eq(node, (*parent).right).
is_right_child_always(h, node, parent) == TRUE

is_right_child(h, node, parent) == node = h[parent].right

\* A call of rotate_left or rotate_right as insert_fixup makes it: the node it
\* is called on and the child of that node that the rotation lifts (self.right
\* for rotate_left, self.left for rotate_right), read when the call is made.
RotationCall(fn, h, self) ==
    [fn |-> fn, self |-> self,
     child |-> IF fn = "rotate_left" THEN h[self].right ELSE h[self].left]

\* One more iteration of the loop in front of the rest of its run: the calls
\* it made come first and it counts as one iteration.
Iterated(made, rest) ==
    [rest EXCEPT !.calls = made \o @, !.iterations = @ + 1]

\* The while loop of insert_fixup.  Result: the heap when the loop is left,
\* whether a grandparent().unwrap() met None (a panic), the rotations called
\* and the number of iterations run.
RECURSIVE fixup_loop(_, _, _)
fixup_loop(h, s, node) ==
    IF ~h[h[node].parent].is_red
    THEN [heap |-> h, panic |-> FALSE, calls |-> <<>>, iterations |-> 0]
    ELSE
      LET parent == h[node].parent
          gp     == grandparent(h, node)
      IN
      IF gp = None                                  \* log::error!, break
      THEN [heap |-> h, panic |-> FALSE, calls |-> <<>>, iterations |-> 1]
      ELSE IF parent = h[gp].left
      THEN
        LET uncle == h[gp].right IN
        IF h[uncle].is_red
        THEN Iterated(<<>>, fixup_loop(recolor_uncle(h, parent, uncle, gp), s, gp))
        ELSE
          LET inner == is_right_child(h, node, parent)
              n1 == IF inner THEN parent ELSE node
              c1 == IF inner THEN <<RotationCall("rotate_left", h, parent)>>
                             ELSE <<>>
              h1 == IF inner THEN rotate_left(h, parent, s) ELSE h
              p1 == h1[n1].parent
              g1 == grandparent(h1, n1)
              h2 == recolor_rotate(h1, p1, g1)
          IN  IF g1 = None
              THEN [heap |-> h1, panic |-> TRUE, calls |-> c1, iterations |-> 1]
              ELSE Iterated(c1 \o <<RotationCall("rotate_right", h2, g1)>>,
                            fixup_loop(rotate_right(h2, g1, s), s, n1))
      ELSE
        LET uncle == h[gp].left IN
        IF h[uncle].is_red
        THEN Iterated(<<>>, fixup_loop(recolor_uncle(h, parent, uncle, gp), s, gp))
        ELSE
          LET inner == (node = h[parent].left)
              n1 == IF inner THEN parent ELSE node
              c1 == IF inner THEN <<RotationCall("rotate_right", h, parent)>>
                             ELSE <<>>
              h1 == IF inner THEN rotate_right(h, parent, s) ELSE h
              p1 == h1[n1].parent
              g1 == grandparent(h1, n1)
              h2 == recolor_rotate(h1, p1, g1)
          IN  IF g1 = None
              THEN [heap |-> h1, panic |-> TRUE, calls |-> c1, iterations |-> 1]
              ELSE Iterated(c1 \o <<RotationCall("rotate_left", h2, g1)>>,
                            fixup_loop(rotate_left(h2, g1, s), s, n1))

\* TllContainer::insert_fixup: the loop, then the root is forced black.
insert_fixup_no_loop(h, s, node) ==
    [heap |-> [h EXCEPT ![h[s].parent].is_red = FALSE], panic |-> FALSE,
     calls |-> <<>>, iterations |-> 0]

insert_fixup_keep_root(h, s, node) ==
    fixup_loop(h, s, node)

insert_fixup(h, s, node) ==
    LET r == fixup_loop(h, s, node)
    IN  IF r.panic
        THEN r
        ELSE [r EXCEPT !.heap = [r.heap EXCEPT ![r.heap[s].parent].is_red = FALSE]]

\* TllContainer::update_sentinel_min_max
RECURSIVE leftmost(_, _)
leftmost(h, n) == IF h[h[n].left].is_sentinel THEN n ELSE leftmost(h, h[n].left)

RECURSIVE rightmost(_, _)
rightmost(h, n) == IF h[h[n].right].is_sentinel THEN n ELSE rightmost(h, h[n].right)

update_sentinel_min_max_skip(h, s) == h

update_sentinel_min_max(h, s) ==
    LET root == h[s].parent IN
    IF h[root].is_sentinel
    THEN [[h EXCEPT ![s].left = s] EXCEPT ![s].right = s]
    ELSE LET h1 == [h EXCEPT ![s].left = leftmost(h, root)]
         IN  [h1 EXCEPT ![s].right = rightmost(h1, root)]

\* ------------------------------------------------------------------ insert
\* The BST descent of insert (the while loop): walks from `current` until an
\* equal key (found) or the sentinel (node = the parent to link under).
RECURSIVE descend(_, _, _, _)
descend(h, current, parent, key) ==
    IF h[current].is_sentinel
    THEN [found |-> FALSE, node |-> parent]
    ELSE IF key < h[current].key
         THEN descend(h, h[current].left, current, key)
         ELSE IF key > h[current].key
              THEN descend(h, h[current].right, current, key)
              ELSE [found |-> TRUE, node |-> current]

\* insert, empty tree: the new node becomes a black root, min and max.
insert_empty(c, key, value) ==
    LET s  == c.sentinel
        a  == NodeAddr(key)
        h0 == c.heap @@ (a :> Tll_new(key, value, s))
        h1 == [h0 EXCEPT ![a].is_red = FALSE]
        h2 == [h1 EXCEPT ![s].parent = a]
        h3 == [h2 EXCEPT ![s].left = a]
        h4 == [h3 EXCEPT ![s].right = a]
    IN  [sentinel |-> s, size |-> c.size + 1, heap |-> h4,
         panic |-> FALSE, existed |-> FALSE,
         calls |-> <<>>, iterations |-> 0]

\* insert, key already present at `node`: the value is overwritten, return.
insert_update_keep(c, node, value) ==
    [sentinel |-> c.sentinel, size |-> c.size, heap |-> c.heap,
     panic |-> FALSE, existed |-> TRUE,
     calls |-> <<>>, iterations |-> 0]

insert_update_count(c, node, value) ==
    [sentinel |-> c.sentinel, size |-> c.size + 1,
     heap |-> [c.heap EXCEPT ![node].data = value],
     panic |-> FALSE, existed |-> TRUE,
     calls |-> <<>>, iterations |-> 0]

insert_update(c, node, value) ==
    [sentinel |-> c.sentinel, size |-> c.size,
     heap |-> [c.heap EXCEPT ![node].data = value],
     panic |-> FALSE, existed |-> TRUE,
     calls |-> <<>>, iterations |-> 0]

\* The child slot of `parent` that receives the new node.
link_child_flipped(h, parent, a) ==
    IF h[a].key < h[parent].key
    THEN [h EXCEPT ![parent].right = a]
    ELSE [h EXCEPT ![parent].left = a]

link_child(h, parent, a) ==
    IF h[a].key < h[parent].key
    THEN [h EXCEPT ![parent].left = a]
    ELSE [h EXCEPT ![parent].right = a]

\* insert, key absent: link a red leaf under `parent`, count it, fix up,
\* refresh the sentinel's min/max shortcuts.
insert_link(c, parent, key, value) ==
    LET s  == c.sentinel
        a  == NodeAddr(key)
        h0 == c.heap @@ (a :> Tll_new(key, value, s))
        h1 == [h0 EXCEPT ![a].parent = parent]
        h2 == link_child(h1, parent, a)
        f  == insert_fixup(h2, s, a)
    IN  [sentinel |-> s, size |-> c.size + 1,
         heap |-> IF f.panic THEN f.heap ELSE update_sentinel_min_max(f.heap, s),
         panic |-> f.panic, existed |-> FALSE,
         calls |-> f.calls, iterations |-> f.iterations]

\* TllContainer::insert
insert(c, key, value) ==
    LET s == c.sentinel IN
    IF c.heap[s].parent = s
    THEN insert_empty(c, key, value)
    ELSE LET d == descend(c.heap, c.heap[s].parent, s, key)
         IN  IF d.found
             THEN insert_update(c, d.node, value)
             ELSE insert_link(c, d.node, key, value)

\* --------------------------------------------------------------- traversal
\* in_order_traverse: the pushed (key, data) pairs and the number of calls.
RECURSIVE in_order_traverse_pre(_, _)
in_order_traverse_pre(h, node) ==
    IF h[node].is_sentinel
    THEN [items |-> <<>>, calls |-> 1]
    ELSE LET l == in_order_traverse_pre(h, h[node].left)
             r == in_order_traverse_pre(h, h[node].right)
         IN  [items |-> <<<<h[node].key, h[node].data>>>> \o l.items \o r.items,
              calls |-> 1 + l.calls + r.calls]

RECURSIVE in_order_traverse(_, _)
in_order_traverse(h, node) ==
    IF h[node].is_sentinel
    THEN [items |-> <<>>, calls |-> 1]
    ELSE LET l == in_order_traverse(h, h[node].left)
             r == in_order_traverse(h, h[node].right)
         IN  [items |-> l.items \o <<<<h[node].key, h[node].data>>>> \o r.items,
              calls |-> 1 + l.calls + r.calls]

\* HashMap::new and HashMap::insert (a later insert of a key replaces it).
EmptyMap == [k \in {} |-> DefaultData]

hashmap_insert(m, k, v) ==
    [x \in DOMAIN m \cup {k} |-> IF x = k THEN v ELSE m[x]]

RECURSIVE hashmap_collect(_, _, _)
hashmap_collect(items, i, m) ==
    IF i > Len(items)
    THEN m
    ELSE hashmap_collect(items, i + 1, hashmap_insert(m, items[i][1], items[i][2]))

\* From<&Tll> for Vec<&U>
vec_from_tll(h, tll) ==
    IF h[tll].is_sentinel
    THEN IF h[h[tll].parent].is_sentinel
         THEN [items |-> <<>>, calls |-> 0]
         ELSE LET t == in_order_traverse(h, h[tll].parent)
              IN  [items |-> [i \in 1..Len(t.items) |-> t.items[i][2]],
                   calls |-> t.calls]
    ELSE LET t == in_order_traverse(h, tll)
         IN  [items |-> [i \in 1..Len(t.items) |-> t.items[i][2]],
              calls |-> t.calls]

\* From<&Tll> for HashMap<&T, &U>
hashmap_from_tll_min(h, tll) ==
    LET t == in_order_traverse(h, IF h[tll].is_sentinel THEN h[tll].left ELSE tll)
    IN  [map |-> hashmap_collect(t.items, 1, EmptyMap),
         calls |-> IF h[h[tll].left].is_sentinel THEN 0 ELSE t.calls]

hashmap_from_tll(h, tll) ==
    IF h[tll].is_sentinel
    THEN IF h[h[tll].parent].is_sentinel
         THEN [map |-> EmptyMap, calls |-> 0]
         ELSE LET t == in_order_traverse(h, h[tll].parent)
              IN  [map |-> hashmap_collect(t.items, 1, EmptyMap), calls |-> t.calls]
    ELSE LET t == in_order_traverse(h, tll)
         IN  [map |-> hashmap_collect(t.items, 1, EmptyMap), calls |-> t.calls]

\* TllContainer::get_items / get_map: the conversion applied to the sentinel.
get_items(h, s) == vec_from_tll(h, s)

get_map(h, s) == hashmap_from_tll(h, s)

\* ----------------------------------------------------------------- actions
\* `inserted` remembers, per key, the value of the latest insert call (0: the
\* key was never inserted).  `last` describes the latest call and what it
\* returned.  For an insert it also holds the rotations insert_fixup
\* called and the number of iterations its loop ran.
NoCall(op) ==
    [op |-> op, existed |-> FALSE, red_root |-> FALSE,
     items |-> <<>>, map |-> EmptyMap, calls |-> 0, node |-> None,
     rotations |-> <<>>, iterations |-> 0]

Init ==
    /\ sentinel = TllContainer_new.sentinel
    /\ size     = TllContainer_new.size
    /\ heap     = TllContainer_new.heap
    /\ panicked = FALSE
    /\ inserted = [k \in Keys |-> 0]
    /\ last     = NoCall("new")
    /\ NoPatch

Insert(k, v) ==
    /\ ~panicked
    /\ inserted' = [inserted EXCEPT ![k] = v]
    /\ \E r \in {insert([sentinel |-> sentinel, size |-> size, heap |-> heap], k, v)} :
           /\ sentinel' = r.sentinel
           /\ size'     = r.size
           /\ heap'     = r.heap
           /\ panicked' = r.panic
           /\ last'     = [NoCall("insert") EXCEPT
                             !.existed    = r.existed,
                             !.red_root   = heap[heap[sentinel].parent].is_red,
                             !.rotations  = r.calls,
                             !.iterations = r.iterations]
    /\ UNCHANGED pvars

\* insert with any key; the value plays no part in the structure of the tree,
\* so the structural specifications draw a single one.
InsertKey == \E k \in Keys : Insert(k, MaxVal)

\* insert with any key and any value.
InsertData == \E k \in DataKeys, v \in Vals : Insert(k, v)

GetItems ==
    /\ ~panicked
    /\ last.op # "get_items"
    /\ LET r == get_items(heap, sentinel)
       IN  last' = [NoCall("get_items") EXCEPT !.items = r.items, !.calls = r.calls]
    /\ UNCHANGED <<sentinel, size, heap, panicked, inserted, pvars>>

GetMap ==
    /\ ~panicked
    /\ last.op # "get_map"
    /\ LET r == get_map(heap, sentinel)
       IN  last' = [NoCall("get_map") EXCEPT !.map = r.map, !.calls = r.calls]
    /\ UNCHANGED <<sentinel, size, heap, panicked, inserted, pvars>>

Next == InsertKey

Spec == Init /\ [][Next]_vars

NextData == InsertData \/ GetItems \/ GetMap

SpecData == Init /\ [][NextData]_vars

\* ------------------------------------------------------- host-owned trees
\* The trees the library receives from the host are std::map trees built by
\* the host (insertions and erasures): any binary search tree over some keys
\* that is a red-black tree, except that its root may be red.
\* HostSubtrees(S, p, bh, redOK): the subtrees over the key set S hanging under
\* parent p with black height bh, whose root may be red only if redOK.
RECURSIVE HostSubtrees(_, _, _, _)
HostSubtrees(S, p, bh, redOK) ==
    IF S = {}
    THEN IF bh = 0
         THEN {[root |-> SentinelAddr, nodes |-> [a \in {} |-> 0]]}
         ELSE {}
    ELSE UNION {
           UNION {
             IF (c /\ ~redOK) \/ (~c /\ bh = 0)
             THEN {}
             ELSE {[root  |-> NodeAddr(k),
                    nodes |-> l.nodes @@ r.nodes @@
                              (NodeAddr(k) :>
                                 [left |-> l.root, parent |-> p, right |-> r.root,
                                  is_red |-> c, is_sentinel |-> FALSE,
                                  key |-> k, data |-> MaxVal])] :
                     l \in HostSubtrees({x \in S : x < k}, NodeAddr(k),
                                        IF c THEN bh ELSE bh - 1, ~c),
                     r \in HostSubtrees({x \in S : x > k}, NodeAddr(k),
                                        IF c THEN bh ELSE bh - 1, ~c)}
             : c \in BOOLEAN}
           : k \in S}

\* The heap of a host tree: the sentinel linked to root, minimum and maximum.
HostHeap(S, t, red_root) ==
    LET lo == CHOOSE k \in S : \A j \in S : k <= j
        hi == CHOOSE k \in S : \A j \in S : k >= j
        h  == (SentinelAddr :>
                 [left |-> NodeAddr(lo), parent |-> t.root, right |-> NodeAddr(hi),
                  is_red |-> FALSE, is_sentinel |-> TRUE,
                  key |-> DefaultKey, data |-> DefaultData]) @@ t.nodes
    IN  [h EXCEPT ![t.root].is_red = red_root]

HostHeaps ==
    UNION {
      UNION { {HostHeap(S, t, red_root) :
                 t \in HostSubtrees(S, SentinelAddr, bh, FALSE),
                 red_root \in BOOLEAN}
              : bh \in 1..Cardinality(S) }
      : S \in (SUBSET HostKeys) \ {{}} }

InitHost ==
    /\ sentinel = SentinelAddr
    /\ heap \in HostHeaps
    /\ size = Cardinality(DOMAIN heap) - 1
    /\ panicked = FALSE
    /\ inserted = [k \in Keys |->
                     IF NodeAddr(k) \in DOMAIN heap THEN heap[NodeAddr(k)].data ELSE 0]
    /\ last = NoCall("host")
    /\ NoPatch

NextHost == InsertKey

SpecHost == InitHost /\ [][NextHost]_vars

\* ------------------------------------------------- the game's loadout names
\* The keys of the loadout tree are strings; each name is the sequence of the
\* byte values of its characters after the common prefix "LOADOUT_".
LOADOUT_LA29_FAB100  == <<76, 65, 50, 57, 95, 70, 65, 66, 49, 48, 48>>
LOADOUT_LA29_FAB250  == <<76, 65, 50, 57, 95, 70, 65, 66, 50, 53, 48>>
LOADOUT_LA29_GUN37   == <<76, 65, 50, 57, 95, 71, 85, 78, 51, 55>>
LOADOUT_LA29_GUN40   == <<76, 65, 50, 57, 95, 71, 85, 78, 52, 48>>
LOADOUT_LA29_NURS122 == <<76, 65, 50, 57, 95, 78, 85, 82, 83, 49, 50, 50>>
LOADOUT_T7_FAB100    == <<84, 55, 95, 70, 65, 66, 49, 48, 48>>
LOADOUT_T7_FAB250    == <<84, 55, 95, 70, 65, 66, 50, 53, 48>>
LOADOUT_T7_GUN37     == <<84, 55, 95, 71, 85, 78, 51, 55>>
LOADOUT_T7_K13       == <<84, 55, 95, 75, 49, 51>>
LOADOUT_T7_NURS122   == <<84, 55, 95, 78, 85, 82, 83, 49, 50, 50>>
LOADOUT_T7_NURS340   == <<84, 55, 95, 78, 85, 82, 83, 51, 52, 48>>

\* The order in which the game's ten loadouts are inserted.
loadouts ==
    <<LOADOUT_LA29_FAB100, LOADOUT_LA29_FAB250, LOADOUT_LA29_GUN37,
      LOADOUT_LA29_NURS122, LOADOUT_T7_FAB100, LOADOUT_T7_FAB250,
      LOADOUT_T7_GUN37, LOADOUT_T7_K13, LOADOUT_T7_NURS122,
      LOADOUT_T7_NURS340>>

LoadoutNames == {loadouts[i] : i \in DOMAIN loadouts} \cup {LOADOUT_LA29_GUN40}

\* String's Ord: bytewise lexicographic, a proper prefix is the smaller one.
StrLess_shortlex(a, b) ==
    \/ Len(a) < Len(b)
    \/ /\ Len(a) = Len(b)
       /\ \E i \in 1..Len(b) :
              (\A j \in 1..(i - 1) : a[j] = b[j]) /\ a[i] < b[i]

StrLess(a, b) ==
    \E i \in 1..(Len(b)) :
        /\ \A j \in 1..(i - 1) : j <= Len(a) /\ a[j] = b[j]
        /\ (i > Len(a) \/ a[i] < b[i])

\* insert compares keys with < only, so a name is represented in the tree by
\* its rank among the names under StrLess.
LoadoutKey(name) == Cardinality({m \in LoadoutNames : StrLess(m, name)}) + 1

LoadoutKeys == {LoadoutKey(n) : n \in LoadoutNames}

InitLoadout ==
    /\ sentinel = TllContainer_new.sentinel
    /\ size     = TllContainer_new.size
    /\ heap     = TllContainer_new.heap
    /\ panicked = FALSE
    /\ inserted = [k \in LoadoutKeys |-> 0]
    /\ last     = NoCall("new")
    /\ NoPatch

\* The values stored with the names play no part in the structure; two
\* different ones are told apart.
LoadoutVals == {DefaultData + 1, MaxVal}

\* The calls of the test: the ten loadouts in the game's order, then the
\* custom loadout.
LoadoutCalls == loadouts \o <<LOADOUT_LA29_GUN40>>

\* The next call of the test, with one of the values.
InsertLoadout ==
    /\ size < Len(LoadoutCalls)
    /\ \E k \in {LoadoutKey(LoadoutCalls[size + 1])}, v \in LoadoutVals : Insert(k, v)

NextLoadout == InsertLoadout

SpecLoadout == InitLoadout /\ [][NextLoadout]_vars

\* ------------------------------------------------- rotations on their own
\* rotate_left and rotate_right are applied to any node that has the child the
\* rotation lifts, in any tree that rotations make of a well-linked one.
InitRotate ==
    /\ sentinel = SentinelAddr
    /\ heap \in {h \in HostHeaps :
                   DOMAIN h \subseteq {SentinelAddr} \cup {NodeAddr(k) : k \in DataKeys}}
    /\ size = Cardinality(DOMAIN heap) - 1
    /\ panicked = FALSE
    /\ inserted = [k \in DataKeys |->
                     IF NodeAddr(k) \in DOMAIN heap THEN heap[NodeAddr(k)].data ELSE 0]
    /\ last = NoCall("host")
    /\ NoPatch

RotateLeft(x) ==
    /\ x \in DOMAIN heap
    /\ ~heap[x].is_sentinel
    /\ ~heap[heap[x].right].is_sentinel
    /\ heap' = rotate_left(heap, x, sentinel)
    /\ last' = [NoCall("rotate_left") EXCEPT !.node = x]
    /\ UNCHANGED <<sentinel, size, panicked, inserted, pvars>>

RotateRight(x) ==
    /\ x \in DOMAIN heap
    /\ ~heap[x].is_sentinel
    /\ ~heap[heap[x].left].is_sentinel
    /\ heap' = rotate_right(heap, x, sentinel)
    /\ last' = [NoCall("rotate_right") EXCEPT !.node = x]
    /\ UNCHANGED <<sentinel, size, panicked, inserted, pvars>>

RotateLeftAny == \E k \in DataKeys : RotateLeft(NodeAddr(k))

RotateRightAny == \E k \in DataKeys : RotateRight(NodeAddr(k))

NextRotate == RotateLeftAny \/ RotateRightAny

SpecRotate == InitRotate /\ [][NextRotate]_vars

\* ======================================================= the patch manager
\* Part D, src/patchy.rs.  Addresses, pointers and isize values are 64-bit
\* words, held as their eight bytes in little-endian order, so that address
\* arithmetic keeps its width and the bytes written to memory are the bytes
\* of the value.

\* The len low bytes of n, little-endian.
RECURSIVE to_le_bytes(_, _)
to_le_bytes(n, len) ==
    IF len = 0 THEN <<>> ELSE <<n % 256>> \o to_le_bytes(n \div 256, len - 1)

\* A small natural number as a 64-bit word.
Word(n) == to_le_bytes(n, 8)

\* Bytewise addition with carry; the carry out of the top byte is dropped.
RECURSIVE AddLE(_, _, _)
AddLE(a, b, carry) ==
    IF a = <<>>
    THEN <<>>
    ELSE LET sum == Head(a) + Head(b) + carry
         IN  <<sum % 256>> \o AddLE(Tail(a), Tail(b), sum \div 256)

Add(a, b) == AddLE(a, b, 0)

\* a - b in two's complement.
Sub(a, b) == AddLE(a, [i \in 1..Len(b) |-> 255 - b[i]], 1)

\* i32::try_from(isize) succeeds: the upper half is the sign extension of
\* bit 31.
FitsI32(d) ==
    \/ (\A i \in 5..8 : d[i] = 0)   /\ d[4] < 128
    \/ (\A i \in 5..8 : d[i] = 255) /\ d[4] >= 128

\* The four bytes of an i32 as they lie in memory.
i32_bytes(d) == SubSeq(d, 1, 4)

\* --------------------------------------------------------- byte sequences
CALL_BYTES == <<\hFF, \h15, \h02, \h00, \h00, \h00, \hEB, \h08>>

NEAR_JUMP == <<\hE9>>

SAVE_RAX == <<\h50>>

SAVE_XMM0 == <<\hF3, \h0F, \h7F, \h04, \h24>>

SAVE_REGISTERS ==
    <<\h51,
      \h52,
      \h41, \h50,
      \h41, \h51,
      \h41, \h52,
      \h41, \h53,
      \h48, \h83, \hEC, \h60,
      \hF3, \h0F, \h7F, \h4C, \h24, \h10,
      \hF3, \h0F, \h7F, \h54, \h24, \h20,
      \hF3, \h0F, \h7F, \h5C, \h24, \h30,
      \hF3, \h0F, \h7F, \h64, \h24, \h40,
      \hF3, \h0F, \h7F, \h6C, \h24, \h50>>

LOAD_RAX == <<\h58>>

LOAD_XMM0 == <<\hF3, \h0F, \h6F, \h04, \h24>>

LOAD_REGISTERS ==
    <<\hF3, \h0F, \h6F, \h4C, \h24, \h10,
      \hF3, \h0F, \h6F, \h54, \h24, \h20,
      \hF3, \h0F, \h6F, \h5C, \h24, \h30,
      \hF3, \h0F, \h6F, \h64, \h24, \h40,
      \hF3, \h0F, \h6F, \h6C, \h24, \h50,
      \h48, \h83, \hC4, \h60,
      \h41, \h5B,
      \h41, \h5A,
      \h41, \h59,
      \h41, \h58,
      \h5A,
      \h59>>

NOP == \h90

ReturnType == {"None", "Rax", "Xmm0"}

\* ------------------------------------------------------------- the inputs
\* Patch sites of the callers: patch_zoom and patch_levels (1.163).
Sites ==
    {<<\hC9, \h31, \h2C, \h40, \h01, \h00, \h00, \h00>>,
     <<\h3F, \hB0, \h26, \h40, \h01, \h00, \h00, \h00>>}

\* Addresses of injected routines.
Functions == {<<\h10, \h32, \h54, \h76, \hFB, \h7F, \h00, \h00>>}

\* The sizes patch_call is given: one below the five bytes of the jump, up
\* to MaxSize.
MaxSize == 7
MinSize == 4
PatchSizes == MinSize..MaxSize

\* The bytes of the host around a site: the site and two bytes after the
\* longest patch.
SiteLen == MaxSize + 2

DEAD_BEEF == <<\hDE, \hAD, \hBE, \hEF>>

SitePatterns ==
    {[i \in 1..SiteLen |-> DEAD_BEEF[((i - 1) % 4) + 1]],
     [i \in 1..SiteLen |-> i]}

\* The data overwrite is given: a run of NOPs (guns.rs), the float 1.0
\* (shake.rs).
OverwriteData ==
    {[i \in 1..n |-> NOP] : n \in 1..MaxSize} \cup {<<\h00, \h00, \h80, \h3F>>}

\* ------------------------------------------------------------ discovery
\* MmapOptions::allocation_granularity() of the host system, 0x10000.
allocation_granularity == <<\h00, \h00, \h01, \h00, \h00, \h00, \h00, \h00>>

\* 0x80000000
TwoGiB_doubled == <<\h00, \h00, \h00, \h00, \h01, \h00, \h00, \h00>>

TwoGiB == <<\h00, \h00, \h00, \h80, \h00, \h00, \h00, \h00>>

\* MmapOptions::page_size() of the host system, 0x1000.
page_size_small == <<\h40, \h00, \h00, \h00, \h00, \h00, \h00, \h00>>

page_size == <<\h00, \h10, \h00, \h00, \h00, \h00, \h00, \h00>>

\* The range lower_bound..upper_bound holds the steps 0..LastCaveStep.
LastCaveStep == 65533

\* k steps of the allocation granularity.
Steps(k) == <<0, 0>> \o to_le_bytes(k, 6)

\* a < b for two usize.
Less(a, b) == \E i \in 1..8 : a[i] < b[i] /\ \A j \in (i + 1)..8 : a[j] = b[j]

\* A distance is a whole number of steps of the allocation granularity.
IsStep(d) == d[1] = 0 /\ d[2] = 0

\* search_memory_cave: `unmapped` holds the addresses at which
\* MemoryAreas::query finds no mapping.  find returns the first address of
\* the stepped range at which the closure holds, that is the least address
\* of the range that is unmapped.  The result is an Option: found, and the
\* address when found.
search_memory_cave_inclusive(address, unmapped) ==
    LET lower_bound == Add(Sub(address, TwoGiB), allocation_granularity)
        upper_bound == Sub(Add(address, TwoGiB), allocation_granularity)
        hits == {a \in unmapped : /\ ~Less(a, lower_bound)
                                  /\ ~Less(upper_bound, a)
                                  /\ IsStep(Sub(a, lower_bound))}
    IN  IF hits = {}
        THEN [found |-> FALSE, address |-> Word(0)]
        ELSE [found |-> TRUE,
              address |-> CHOOSE a \in hits : \A b \in hits : ~Less(b, a)]

search_memory_cave(address, unmapped) ==
    LET lower_bound == Add(Sub(address, TwoGiB), allocation_granularity)
        upper_bound == Sub(Add(address, TwoGiB), allocation_granularity)
        hits == {a \in unmapped : /\ ~Less(a, lower_bound)
                                  /\ Less(a, upper_bound)
                                  /\ IsStep(Sub(a, lower_bound))}
    IN  IF hits = {}
        THEN [found |-> FALSE, address |-> Word(0)]
        ELSE [found |-> TRUE,
              address |-> CHOOSE a \in hits : \A b \in hits : ~Less(b, a)]

\* The steps told apart: the first two and the last of the range.
CaveSteps == {0, 1, LastCaveStep}

\* The start of the allocation-granularity block that holds an address.
AlignDown(a) == <<0, 0>> \o SubSeq(a, 3, 8)

\* The address k steps above address - 2 GiB + granularity.
CaveAddress(address, k) ==
    Add(Add(Sub(address, TwoGiB), allocation_granularity), Steps(k))

\* Around an anchor, the addresses whose being mapped or not is told apart:
\* the steps of CaveSteps, the address one step above the last one, which is
\* address + 2 GiB - granularity, and the start of the block of the first.
Candidates(address) ==
    {CaveAddress(address, k) : k \in CaveSteps \cup {LastCaveStep + 1}}
        \cup {AlignDown(CaveAddress(address, 0))}

\* The unmapped addresses of a process in which, around every site, the
\* steps below `first` are mapped and the other candidates are not; with
\* None all steps of CaveSteps are mapped.
Unmapped(first) ==
    UNION {Candidates(address) \
             {CaveAddress(address, k) :
                 k \in {j \in CaveSteps : first = None \/ j < first}}
           : address \in Sites}

Layouts == {Unmapped(first) : first \in CaveSteps \cup {None}}

\* The page that starts at mem holds the address a.
InPage(a, mem) == ~Less(a, mem) /\ Less(a, Add(mem, page_size))

\* ---------------------------------------------------------------- writes
\* copy_nonoverlapping of data to buf + offset.
write_bytes(buf, offset, data) ==
    SubSeq(buf, 1, offset) \o data \o SubSeq(buf, offset + Len(data) + 1, Len(buf))

\* write_data: the copy, then the offset moves past the data.
write_data(t, data) ==
    [bytes |-> write_bytes(t.bytes, t.offset, data), offset |-> t.offset + Len(data)]

\* write_call: CALL_BYTES, then the eight bytes of the function pointer.
write_call(t, function) == write_data(write_data(t, CALL_BYTES), function)

\* patch_call, the jump at the site: the opcode is written, then the offset
\* is computed and, when it fits, written behind it.
site_jump_from_site(s, address, mem) ==
    LET s1 == write_bytes(s, 0, NEAR_JUMP)
        jump_offset == Sub(mem, address)
    IN  IF FitsI32(jump_offset)
        THEN [bytes |-> write_bytes(s1, 1, i32_bytes(jump_offset)), panic |-> FALSE]
        ELSE [bytes |-> s1, panic |-> TRUE]

site_jump(s, address, mem) ==
    LET s1 == write_bytes(s, 0, NEAR_JUMP)
        jump_offset == Sub(Sub(mem, address), Word(5))
    IN  IF FitsI32(jump_offset)
        THEN [bytes |-> write_bytes(s1, 1, i32_bytes(jump_offset)), panic |-> FALSE]
        ELSE [bytes |-> s1, panic |-> TRUE]

\* patch_call, the trampoline: the overwritten bytes when asked for, the save
\* block, the call, the restore block, the jump back to address + size.
save_block_always_rax(t, allow_return) ==
    LET t1 == write_data(t, SAVE_RAX)
        t2 == write_data(t1, SAVE_REGISTERS)
    IN  IF allow_return # "Xmm0" THEN write_data(t2, SAVE_XMM0) ELSE t2

save_block(t, allow_return) ==
    LET t1 == IF allow_return # "Rax" THEN write_data(t, SAVE_RAX) ELSE t
        t2 == write_data(t1, SAVE_REGISTERS)
    IN  IF allow_return # "Xmm0" THEN write_data(t2, SAVE_XMM0) ELSE t2

load_block_keep_rax(t, allow_return) ==
    LET t1 == IF allow_return # "Xmm0" THEN write_data(t, LOAD_XMM0) ELSE t
    IN  write_data(t1, LOAD_REGISTERS)

load_block(t, allow_return) ==
    LET t1 == IF allow_return # "Xmm0" THEN write_data(t, LOAD_XMM0) ELSE t
        t2 == write_data(t1, LOAD_REGISTERS)
    IN  IF allow_return # "Rax" THEN write_data(t2, LOAD_RAX) ELSE t2

jump_back_from_base(t, address, sz, mem) ==
    LET b1 == write_bytes(t.bytes, t.offset, NEAR_JUMP)
        jump_offset == Sub(Sub(Add(address, Word(sz)), mem), Word(5))
    IN  IF FitsI32(jump_offset)
        THEN [bytes |-> write_bytes(b1, t.offset + 1, i32_bytes(jump_offset)),
              panic |-> FALSE]
        ELSE [bytes |-> b1, panic |-> TRUE]

jump_back(t, address, sz, mem) ==
    LET b1 == write_bytes(t.bytes, t.offset, NEAR_JUMP)
        jump_offset == Sub(Sub(Add(address, Word(sz)), Add(mem, Word(t.offset))),
                           Word(5))
    IN  IF FitsI32(jump_offset)
        THEN [bytes |-> write_bytes(b1, t.offset + 1, i32_bytes(jump_offset)),
              panic |-> FALSE]
        ELSE [bytes |-> b1, panic |-> TRUE]

trampoline_no_head(f, mem) ==
    LET t0 == [bytes |-> <<>>, offset |-> 0]
        t2 == save_block(t0, f.allow_return)
        t3 == write_call(t2, f.function)
        t4 == load_block(t3, f.allow_return)
    IN  jump_back(t4, f.address, f.size, mem)

trampoline(f, mem) ==
    LET t0 == [bytes |-> <<>>, offset |-> 0]
        t1 == IF f.save_overwritten THEN write_data(t0, f.overwritten) ELSE t0
        t2 == save_block(t1, f.allow_return)
        t3 == write_call(t2, f.function)
        t4 == load_block(t3, f.allow_return)
    IN  jump_back(t4, f.address, f.size, mem)

\* ----------------------------------------------------------- the routines
\* One of the two routines runs, statement by statement; `frame` holds its
\* arguments and locals, `before` the bytes of the site when it was called
\* and `prot_before` the protection of its page at that time.
NoFrame ==
    [op |-> "none", address |-> Word(0), function |-> Word(0), size |-> 0,
     save_overwritten |-> FALSE, allow_return |-> "None", data |-> <<>>,
     old_protect |-> "0", overwritten |-> <<>>,
     memory_cave |-> [found |-> FALSE, address |-> Word(0)],
     before |-> <<>>, prot_before |-> "0"]

InitPatch ==
    /\ pc = "idle"
    /\ site \in SitePatterns
    /\ prot = "PAGE_EXECUTE_READ"
    /\ frame = NoFrame
    /\ mmap = [mapped |-> FALSE]
    /\ patch = [returned |-> FALSE]
    /\ cpu = [ran |-> FALSE]
    /\ areas \in Layouts
    /\ NoExtra
    /\ sentinel = TllContainer_new.sentinel
    /\ size     = TllContainer_new.size
    /\ heap     = TllContainer_new.heap
    /\ panicked = FALSE
    /\ inserted = [k \in DataKeys |-> 0]
    /\ last     = NoCall("new")

\* Patch::patch_call is entered.
PatchCall(address, function, sz, save_overwritten, allow_return) ==
    /\ pc = "idle"
    /\ frame' = [NoFrame EXCEPT !.op = "patch_call", !.address = address,
                                !.function = function, !.size = sz,
                                !.save_overwritten = save_overwritten,
                                !.allow_return = allow_return, !.before = site,
                                !.prot_before = prot]
    /\ pc' = "relax"
    /\ UNCHANGED <<site, prot, mmap, patch, cpu, areas, tvars, xvars>>

\* Patch::overwrite is entered.
Overwrite(address, data) ==
    /\ pc = "idle"
    /\ frame' = [NoFrame EXCEPT !.op = "overwrite", !.address = address,
                                !.data = data, !.size = Len(data),
                                !.before = site, !.prot_before = prot]
    /\ pc' = "relax"
    /\ UNCHANGED <<site, prot, mmap, patch, cpu, areas, tvars, xvars>>

\* VirtualProtect(address, 0x100, PAGE_EXECUTE_READWRITE, &mut old_protect)
Relax ==
    /\ pc = "relax"
    /\ frame' = [frame EXCEPT !.old_protect = prot]
    /\ prot' = "PAGE_EXECUTE_READWRITE"
    /\ pc' = "snapshot"
    /\ UNCHANGED <<site, mmap, patch, cpu, areas, tvars, xvars>>

\* let overwritten = process_bytes.to_vec()
Snapshot ==
    /\ pc = "snapshot"
    /\ frame' = [frame EXCEPT !.overwritten = SubSeq(site, 1, frame.size)]
    /\ pc' = IF frame.op = "patch_call" THEN "search" ELSE "copy"
    /\ UNCHANGED <<site, prot, mmap, patch, cpu, areas, tvars, xvars>>

\* search_memory_cave(address).expect("No memory cave found")
SearchCave ==
    /\ pc = "search"
    /\ LET memory_cave == search_memory_cave(frame.address, areas)
       IN  /\ frame' = [frame EXCEPT !.memory_cave = memory_cave]
           /\ pc' = IF memory_cave.found THEN "map" ELSE "panic"
    /\ UNCHANGED <<site, prot, mmap, patch, cpu, areas, tvars, xvars>>

\* MmapOptions::new(page_size).with_address(memory_cave).map_mut().expect(..):
\* the system refuses, or maps a page at the address or at the start of the
\* allocation block that holds it.
MapCave ==
    /\ pc = "map"
    /\ \/ /\ pc' = "panic"
          /\ UNCHANGED <<mmap, areas>>
       \/ /\ \E mem \in {frame.memory_cave.address,
                            AlignDown(frame.memory_cave.address)} :
                /\ mmap' = [mapped |-> TRUE, addr |-> mem, bytes |-> <<>>,
                            exec |-> FALSE]
                /\ areas' = {a \in areas : ~InPage(a, mem)}
          /\ pc' = "jump"
    /\ UNCHANGED <<site, prot, frame, patch, cpu, tvars, xvars>>

\* The relative jump at the site.
WriteJump ==
    /\ pc = "jump"
    /\ LET r == site_jump(site, frame.address, mmap.addr)
       IN  /\ site' = r.bytes
           /\ pc' = IF r.panic THEN "panic" ELSE "nops"
    /\ UNCHANGED <<prot, frame, mmap, patch, cpu, areas, tvars, xvars>>

\* let nops = vec![0x90; size - 5]; write_data(address, &mut 5, &nops)
WriteNops ==
    /\ pc = "nops"
    /\ IF frame.size < 5
       THEN /\ pc' = "panic"
            /\ UNCHANGED site
       ELSE /\ site' = write_bytes(site, 5, [i \in 1..(frame.size - 5) |-> NOP])
            /\ pc' = "restore"
    /\ UNCHANGED <<prot, frame, mmap, patch, cpu, areas, tvars, xvars>>

\* copy_nonoverlapping(data.as_ptr(), address, data.len())
CopyData_shifted ==
    /\ pc = "copy"
    /\ site' = write_bytes(site, 1, frame.data)
    /\ pc' = "restore"
    /\ UNCHANGED <<prot, frame, mmap, patch, cpu, areas, tvars, xvars>>

CopyData ==
    /\ pc = "copy"
    /\ site' = write_bytes(site, 0, frame.data)
    /\ pc' = "restore"
    /\ UNCHANGED <<prot, frame, mmap, patch, cpu, areas, tvars, xvars>>

\* VirtualProtect(address, 0x100, old_protect, &mut old_protect)
Restore ==
    /\ pc = "restore"
    /\ prot' = frame.old_protect
    /\ frame' = [frame EXCEPT !.old_protect = prot]
    /\ pc' = IF frame.op = "patch_call" THEN "build" ELSE "return"
    /\ UNCHANGED <<site, mmap, patch, cpu, areas, tvars, xvars>>

\* The trampoline is written to the mapping.
BuildTrampoline ==
    /\ pc = "build"
    /\ LET r == trampoline(frame, mmap.addr)
       IN  /\ mmap' = [mmap EXCEPT !.bytes = r.bytes]
           /\ pc' = IF r.panic THEN "panic" ELSE "make_exec"
    /\ UNCHANGED <<site, prot, frame, patch, cpu, areas, tvars, xvars>>

\* mmap.make_exec().unwrap(); Patch { size, overwritten, mmap: Some(mmap) }
MakeExec_writable ==
    /\ pc = "make_exec"
    /\ patch' = [returned |-> TRUE, size |-> frame.size,
                 overwritten |-> frame.overwritten, mmap |-> "Some"]
    /\ pc' = "done"
    /\ UNCHANGED <<site, prot, frame, mmap, cpu, areas, tvars, xvars>>

MakeExec ==
    /\ pc = "make_exec"
    /\ mmap' = [mmap EXCEPT !.exec = TRUE]
    /\ patch' = [returned |-> TRUE, size |-> frame.size,
                 overwritten |-> frame.overwritten, mmap |-> "Some"]
    /\ pc' = "done"
    /\ UNCHANGED <<site, prot, frame, cpu, areas, tvars, xvars>>

\* Patch { size: data.len(), overwritten, mmap: None }
ReturnOverwrite ==
    /\ pc = "return"
    /\ patch' = [returned |-> TRUE, size |-> Len(frame.data),
                 overwritten |-> frame.overwritten, mmap |-> "None"]
    /\ pc' = "done"
    /\ UNCHANGED <<site, prot, frame, mmap, cpu, areas, tvars, xvars>>

\* ----------------------------------------------- running the trampoline
\* The processor on the instructions that the byte tables are made of.
Reg64 ==
    <<"RAX", "RCX", "RDX", "RBX", "RSP", "RBP", "RSI", "RDI",
      "R8", "R9", "R10", "R11", "R12", "R13", "R14", "R15">>

XmmReg == <<"XMM0", "XMM1", "XMM2", "XMM3", "XMM4", "XMM5", "XMM6", "XMM7">>

\* The instruction at offset off: PUSH/POP r64, SUB/ADD RSP imm8,
\* MOVDQU [RSP + disp], xmm and back, CALL [RIP + disp], JMP rel8, JMP rel32.
Decode(bytes, off) ==
    LET B(i) == IF off + i + 1 <= Len(bytes) THEN bytes[off + i + 1] ELSE 0
        ins(op, reg, disp, len) == [op |-> op, reg |-> reg, disp |-> disp, len |-> len]
    IN  CASE B(0) \in \h50..\h57 -> ins("push", Reg64[B(0) - \h50 + 1], 0, 1)
          [] B(0) \in \h58..\h5F -> ins("pop", Reg64[B(0) - \h58 + 1], 0, 1)
          [] B(0) = \h41 /\ B(1) \in \h50..\h57 -> ins("push", Reg64[B(1) - \h50 + 9], 0, 2)
          [] B(0) = \h41 /\ B(1) \in \h58..\h5F -> ins("pop", Reg64[B(1) - \h58 + 9], 0, 2)
          [] B(0) = \h48 /\ B(1) = \h83 /\ B(2) = \hEC /\ B(3) < 128 -> ins("sub_rsp", "RSP", B(3), 4)
          [] B(0) = \h48 /\ B(1) = \h83 /\ B(2) = \hC4 /\ B(3) < 128 -> ins("add_rsp", "RSP", B(3), 4)
          [] /\ B(0) = \hF3 /\ B(1) = \h0F /\ B(2) \in {\h7F, \h6F}
             /\ B(3) % 8 = 4 /\ B(4) = \h24 /\ B(3) \div 64 \in {0, 1}
             /\ (B(3) \div 64 = 1 => B(5) < 128) ->
                 ins(IF B(2) = \h7F THEN "save_xmm" ELSE "load_xmm",
                     XmmReg[((B(3) \div 8) % 8) + 1],
                     IF B(3) \div 64 = 1 THEN B(5) ELSE 0,
                     IF B(3) \div 64 = 1 THEN 6 ELSE 5)
          [] B(0) = \hFF /\ B(1) = \h15 /\ B(2) < 128 /\ B(3) = 0 /\ B(4) = 0 /\ B(5) = 0 ->
                 ins("call", "RIP", B(2), 6)
          [] B(0) = \hEB /\ B(1) < 128 -> ins("jmp_short", "RIP", B(1), 2)
          [] B(0) = \hE9 -> ins("jmp", "RIP", 0, 5)
          [] OTHER -> ins("bad", "", 0, 1)

\* The registers the Windows x64 convention lets a callee change.
VolatileGpr == {"RAX", "RCX", "RDX", "R8", "R9", "R10", "R11"}

VolatileXmm == {"XMM0", "XMM1", "XMM2", "XMM3", "XMM4", "XMM5"}

RegIndex(r) == CHOOSE i \in 1..16 : Reg64[i] = r

XmmIndex(x) == CHOOSE i \in 1..8 : XmmReg[i] = x

\* The value of a register when the trampoline is entered: one per register,
\* two halves for an XMM register.
EntryValue(r) ==
    IF r \in VolatileXmm
    THEN <<300 + 2 * XmmIndex(r), 301 + 2 * XmmIndex(r)>>
    ELSE 100 + RegIndex(r)

\* The stack below the stack pointer at entry, in 8-byte slots; offsets are
\* relative to the stack pointer at entry.
StackSlots == {0 - 8 * k : k \in 1..32}

CpuEntry(start) ==
    [ip |-> start, rsp |-> 0,
     regs |-> [r \in VolatileGpr \cup VolatileXmm |-> EntryValue(r)],
     stack |-> [s \in StackSlots |-> 0],
     saves |-> <<>>, restores |-> <<>>, called |-> <<>>,
     target |-> <<>>, fault |-> FALSE, done |-> FALSE]

\* The injected routine: it is entered with its return address pushed, writes
\* `junk` to every volatile register and to its own stack, and returns.
Routine(m, ret, junk) ==
    [m EXCEPT
       !.regs  = [r \in DOMAIN m.regs |->
                    IF r \in VolatileXmm THEN <<junk, junk>> ELSE junk],
       !.stack = [s \in StackSlots |->
                    IF s < m.rsp - 8 THEN junk
                    ELSE IF s = m.rsp - 8 THEN ret ELSE m.stack[s]]]

\* One instruction.
Step(bytes, mem, m, junk) ==
    LET i    == Decode(bytes, m.ip)
        next == m.ip + i.len
        at   == m.rsp + i.disp
    IN  CASE i.op = "push" /\ i.reg \in DOMAIN m.regs /\ m.rsp - 8 \in StackSlots ->
               [m EXCEPT !.rsp = @ - 8,
                         !.stack[m.rsp - 8] = m.regs[i.reg],
                         !.saves = Append(@, i.reg), !.ip = next]
          [] i.op = "pop" /\ i.reg \in DOMAIN m.regs /\ m.rsp \in StackSlots ->
               [m EXCEPT !.rsp = @ + 8,
                         !.regs[i.reg] = m.stack[m.rsp],
                         !.restores = Append(@, i.reg), !.ip = next]
          [] i.op = "sub_rsp" -> [m EXCEPT !.rsp = @ - i.disp, !.ip = next]
          [] i.op = "add_rsp" -> [m EXCEPT !.rsp = @ + i.disp, !.ip = next]
          [] i.op = "save_xmm" /\ i.reg \in DOMAIN m.regs
                /\ at \in StackSlots /\ at + 8 \in StackSlots ->
               [m EXCEPT !.stack[at] = m.regs[i.reg][1],
                         !.stack[at + 8] = m.regs[i.reg][2],
                         !.saves = Append(@, i.reg), !.ip = next]
          [] i.op = "load_xmm" /\ i.reg \in DOMAIN m.regs
                /\ at \in StackSlots /\ at + 8 \in StackSlots ->
               [m EXCEPT !.regs[i.reg] = <<m.stack[at], m.stack[at + 8]>>,
                         !.restores = Append(@, i.reg), !.ip = next]
          [] i.op = "call" /\ m.rsp - 8 \in StackSlots ->
               [Routine(m, next, junk) EXCEPT
                         !.called = Append(@, SubSeq(bytes, next + i.disp + 1,
                                                     next + i.disp + 8)),
                         !.ip = next]
          [] i.op = "jmp_short" -> [m EXCEPT !.ip = next + i.disp]
          [] i.op = "jmp" ->
               [m EXCEPT !.done = TRUE,
                         !.target = Add(Add(Add(mem, Word(m.ip)), Word(5)),
                                        SubSeq(bytes, m.ip + 2, m.ip + 5)
                                          \o [k \in 1..4 |->
                                                IF bytes[m.ip + 5] >= 128 THEN 255 ELSE 0])]
          [] OTHER -> [m EXCEPT !.fault = TRUE]

\* Instructions are run until the near jump leaves the trampoline.
RECURSIVE Run(_, _, _, _)
Run(bytes, mem, m, junk) ==
    IF m.fault \/ m.done THEN m ELSE Run(bytes, mem, Step(bytes, mem, m, junk), junk)

\* What the injected routine leaves in the registers it may change.
Junk == {0, 999}

\* A host thread reaches the patched site and runs the trampoline from the
\* instruction after the host's own overwritten bytes.
Execute ==
    /\ pc = "done"
    /\ frame.op = "patch_call"
    /\ ~cpu.ran
    /\ \E junk \in Junk :
         LET start == IF frame.save_overwritten THEN frame.size ELSE 0
         IN  cpu' = [ran |-> TRUE, junk |-> junk,
                     out |-> Run(mmap.bytes, mmap.addr, CpuEntry(start), junk)]
    /\ UNCHANGED <<pc, site, prot, frame, mmap, patch, areas, tvars, xvars>>

CallPatchCall ==
    \E address \in Sites, function \in Functions, sz \in PatchSizes,
       save_overwritten \in BOOLEAN, allow_return \in ReturnType :
        PatchCall(address, function, sz, save_overwritten, allow_return)

CallOverwrite == \E address \in Sites, data \in OverwriteData : Overwrite(address, data)

NextPatch ==
    \/ CallPatchCall
    \/ CallOverwrite
    \/ Relax
    \/ Snapshot
    \/ SearchCave
    \/ MapCave
    \/ WriteJump
    \/ WriteNops
    \/ CopyData
    \/ Restore
    \/ BuildTrampoline
    \/ MakeExec
    \/ ReturnOverwrite
    \/ Execute

SpecPatch == InitPatch /\ [][NextPatch]_vars

\* ------------------------------------------------ the cave search by itself
\* An empty tree.
NoTree ==
    /\ sentinel = TllContainer_new.sentinel
    /\ size     = TllContainer_new.size
    /\ heap     = TllContainer_new.heap
    /\ panicked = FALSE
    /\ inserted = [k \in DataKeys |-> 0]
    /\ last     = NoCall("new")

\* No patch routine is running.
IdlePatch ==
    /\ pc = "idle"
    /\ site = <<>>
    /\ prot = "PAGE_EXECUTE_READ"
    /\ frame = [op |-> "none"]
    /\ mmap = [mapped |-> FALSE]
    /\ patch = [returned |-> FALSE]
    /\ cpu = [ran |-> FALSE]

\* The anchors search_memory_cave is called with: the sites of patch_zoom and
\* patch_levels, and the site of dumpable (1.163).
Anchors == Sites \cup {<<\hE0, \h56, \h02, \h40, \h01, \h00, \h00, \h00>>}

\* search_memory_cave is about to be called with an anchor, in a process
\* with any of the candidate addresses unmapped.
InitCave ==
    /\ NoTree
    /\ IdlePatch
    /\ NoRace
    /\ NoCVec
    /\ NoInit
    /\ \E address \in Anchors :
         /\ scan = [called |-> FALSE, address |-> address]
         /\ areas \in SUBSET Candidates(address)

SearchMemoryCave ==
    /\ ~scan.called
    /\ scan' = [called |-> TRUE, address |-> scan.address,
                result |-> search_memory_cave(scan.address, areas)]
    /\ UNCHANGED <<pc, site, prot, frame, mmap, patch, cpu, areas>>
    /\ UNCHANGED <<tvars, race, cvars, ivars>>

NextCave == SearchMemoryCave

SpecCave == InitCave /\ [][NextCave]_vars

\* ===================================================================== CVec
\* src/structs/cvec.rs.  Pointers are byte addresses; the items are of a type
\* of SizeOfT bytes (plane.rs pushes *const Loadout).
SizeOfT == 8

null == 0

\* The pushes followed.
MaxPush == 5

\* The addresses malloc and realloc hand out, far enough apart for the
\* largest block.
Bases == {256, 512, 768}

\* No block of the C heap is in use; a cell that was never written holds 0.
NoBlock == [used |-> FALSE, size |-> 0, cells |-> <<>>]

EmptyHeap == [b \in Bases |-> NoBlock]

\* libc::malloc(size) answering `answer`: null, or the start of a block that
\* was not in use.
malloc(h, sz, answer) ==
    IF answer = null
    THEN h
    ELSE [h EXCEPT ![answer] =
            [used |-> TRUE, size |-> sz, cells |-> [i \in 1..(sz \div SizeOfT) |-> 0]]]

\* libc::realloc(ptr, size) answering `answer`: null and the old block stays,
\* or a block of the new size that starts with the content of the old one,
\* at the same place or elsewhere.
realloc(h, ptr, sz, answer) ==
    IF answer = null
    THEN h
    ELSE LET old == h[ptr].cells
             new == [i \in 1..(sz \div SizeOfT) |->
                        IF i <= Len(old) THEN old[i] ELSE 0]
         IN  [[h EXCEPT ![ptr] = NoBlock] EXCEPT ![answer] =
                 [used |-> TRUE, size |-> sz, cells |-> new]]

\* The block that holds an address, null when there is none.
BlockOf(h, addr) ==
    LET holds == {b \in Bases : h[b].used /\ b <= addr /\ addr + SizeOfT <= b + h[b].size}
    IN  IF holds = {} THEN null ELSE CHOOSE b \in holds : TRUE

\* CVec::empty
CVec_empty == [items |-> null, items_end |-> null, items_rsv_end |-> null]

\* CVec::len
len(v) ==
    IF v.items = null \/ v.items_end = null
    THEN 0
    ELSE LET count == (v.items_end - v.items) \div SizeOfT
         IN  IF count < 0 THEN 0 ELSE count

\* CVec::insert up to the write: the first allocation, or the reallocation
\* of a full vector.  `answer` is what the allocator returns.
grow_keep_end(v, h, answer) ==
    IF v.items = null
    THEN IF answer = null
         THEN [v |-> v, h |-> h, status |-> "panic"]
         ELSE [v |-> [items |-> answer, items_end |-> answer,
                      items_rsv_end |-> answer + 1 * SizeOfT],
               h |-> malloc(h, SizeOfT, answer), status |-> "ok"]
    ELSE IF v.items_end = v.items_rsv_end
         THEN LET current_len == len(v)
                  new_capacity == IF current_len = 0 THEN 1 ELSE current_len * 2
                  new_size == new_capacity * SizeOfT
              IN  IF answer = null
                  THEN [v |-> v, h |-> h, status |-> "panic"]
                  ELSE [v |-> [items |-> answer,
                               items_end |-> v.items_end,
                               items_rsv_end |-> answer + new_capacity * SizeOfT],
                        h |-> realloc(h, v.items, new_size, answer),
                        status |-> "ok"]
         ELSE [v |-> v, h |-> h, status |-> "ok"]

grow_by_one(v, h, answer) ==
    IF v.items = null
    THEN IF answer = null
         THEN [v |-> v, h |-> h, status |-> "panic"]
         ELSE [v |-> [items |-> answer, items_end |-> answer,
                      items_rsv_end |-> answer + 1 * SizeOfT],
               h |-> malloc(h, SizeOfT, answer), status |-> "ok"]
    ELSE IF v.items_end = v.items_rsv_end
         THEN LET current_len == len(v)
                  new_capacity == current_len + 1
                  new_size == new_capacity * SizeOfT
              IN  IF answer = null
                  THEN [v |-> v, h |-> h, status |-> "panic"]
                  ELSE [v |-> [items |-> answer,
                               items_end |-> answer + current_len * SizeOfT,
                               items_rsv_end |-> answer + new_capacity * SizeOfT],
                        h |-> realloc(h, v.items, new_size, answer),
                        status |-> "ok"]
         ELSE [v |-> v, h |-> h, status |-> "ok"]

grow(v, h, answer) ==
    IF v.items = null
    THEN IF answer = null
         THEN [v |-> v, h |-> h, status |-> "panic"]
         ELSE [v |-> [items |-> answer, items_end |-> answer,
                      items_rsv_end |-> answer + 1 * SizeOfT],
               h |-> malloc(h, SizeOfT, answer), status |-> "ok"]
    ELSE IF v.items_end = v.items_rsv_end
         THEN LET current_len == len(v)
                  new_capacity == IF current_len = 0 THEN 1 ELSE current_len * 2
                  new_size == new_capacity * SizeOfT
              IN  IF answer = null
                  THEN [v |-> v, h |-> h, status |-> "panic"]
                  ELSE [v |-> [items |-> answer,
                               items_end |-> answer + current_len * SizeOfT,
                               items_rsv_end |-> answer + new_capacity * SizeOfT],
                        h |-> realloc(h, v.items, new_size, answer),
                        status |-> "ok"]
         ELSE [v |-> v, h |-> h, status |-> "ok"]

\* std::ptr::write(self.items_end, item): a write outside every block is
\* undefined behaviour.
ptr_write(h, addr, item) ==
    LET b == BlockOf(h, addr)
    IN  IF b = null
        THEN [h |-> h, status |-> "undefined"]
        ELSE [h |-> [h EXCEPT ![b].cells[(addr - b) \div SizeOfT + 1] = item],
              status |-> "ok"]

\* CVec::insert
CVec_insert(v, h, item, answer) ==
    LET g == grow(v, h, answer)
    IN  IF g.status # "ok"
        THEN g
        ELSE LET w == ptr_write(g.h, g.v.items_end, item)
             IN  [v |-> [g.v EXCEPT !.items_end = g.v.items_end + 1 * SizeOfT],
                  h |-> w.h, status |-> w.status]

\* *current, for a pointer into a block.
ptr_read(h, addr) ==
    LET b == BlockOf(h, addr)
    IN  IF b = null THEN None ELSE h[b].cells[(addr - b) \div SizeOfT + 1]

\* From<&CVec<T>> for Vec<&T>, the loop: the items from current up to
\* items_end.
RECURSIVE read_from(_, _, _)
read_from(v, h, current) ==
    IF current < v.items_end /\ current # null
    THEN <<ptr_read(h, current)>> \o read_from(v, h, current + 1 * SizeOfT)
    ELSE <<>>

\* From<&CVec<T>> for Vec<&T>
vec_from(v, h) ==
    IF v.items = null \/ v.items_end = null
    THEN <<>>
    ELSE LET count == (v.items_end - v.items) \div SizeOfT
         IN  IF count < 0 THEN <<>>
             ELSE IF count = 0 THEN <<>>
             ELSE read_from(v, h, v.items)

\* What the allocator may answer: null, the block it was given, a block not
\* in use.
Answers(v, h) ==
    {null} \cup {b \in Bases : ~h[b].used \/ b = v.items}

InitCVec ==
    /\ NoTree
    /\ IdlePatch
    /\ NoRace
    /\ areas = {}
    /\ NoScan
    /\ NoInit
    /\ cvec = CVec_empty
    /\ c_heap = EmptyHeap
    /\ pushed = <<>>
    /\ cstatus = "ok"

\* One call of insert.
Push ==
    /\ cstatus = "ok"
    /\ Len(pushed) < MaxPush
    /\ \E item \in Vals, answer \in Answers(cvec, c_heap) :
         LET r == CVec_insert(cvec, c_heap, item, answer)
         IN  /\ cvec' = r.v
             /\ c_heap' = r.h
             /\ cstatus' = r.status
             /\ pushed' = IF r.status = "ok" THEN Append(pushed, item) ELSE pushed
    /\ UNCHANGED <<pc, site, prot, frame, mmap, patch, cpu, areas>>
    /\ UNCHANGED <<tvars, race, scan, ivars>>

NextCVec == Push

SpecCVec == InitCVec /\ [][NextCVec]_vars

\* ================================================================== library
\* src/lib.rs.  A build has one of the version features or none; both at once
\* define the address tables of zoom.rs twice and do not build.
Builds == {{"1_151"}, {"1_163"}, {}}

\* cfg!(feature = f)
cfg(build, f) == f \in build

\* "Steam 1.151", "Steam 1.163", "Gog 1.163" as bytes.
Steam_1_151 == <<83, 116, 101, 97, 109, 32, 49, 46, 49, 53, 49>>
Steam_1_163 == <<83, 116, 101, 97, 109, 32, 49, 46, 49, 54, 51>>
Gog_1_163   == <<71, 111, 103, 32, 49, 46, 49, 54, 51>>

\* CStr::to_str: the bytes are UTF-8.  Of the bytes of the inputs followed,
\* those below 128 are characters and 255 is in no UTF-8 string.
to_str(bytes) ==
    IF \A i \in DOMAIN bytes : bytes[i] < 128
    THEN [ok |-> TRUE, str |-> bytes]
    ELSE [ok |-> FALSE, str |-> <<>>]

\* version: to_str(..).unwrap() panics on an Err.
version(build, v) ==
    LET s == to_str(v)
    IN  IF ~s.ok
        THEN [panic |-> TRUE, result |-> FALSE, log |-> <<>>]
        ELSE IF cfg(build, "1_151")
        THEN [panic |-> FALSE, result |-> s.str = Steam_1_151, log |-> <<>>]
        ELSE IF cfg(build, "1_163")
        THEN [panic |-> FALSE, result |-> s.str = Steam_1_163, log |-> <<>>]
        ELSE IF s.str = Gog_1_163
        THEN [panic |-> FALSE, result |-> FALSE,
              log |-> <<"Gog 1.163 detected", "Your game will crash.">>]
        ELSE [panic |-> FALSE, result |-> FALSE, log |-> <<>>]

\* The strings the loader may pass: the three build strings, what they start
\* with, and each with one more byte.
Prefixes(s) == {SubSeq(s, 1, n) : n \in 0..Len(s)}

VersionStrings ==
    UNION {Prefixes(s) \cup {s \o <<c>> : c \in {48, 49, 51, 255}}
           : s \in {Steam_1_151, Steam_1_163, Gog_1_163}}

InitVersion ==
    /\ NoTree
    /\ IdlePatch
    /\ NoRace
    /\ areas = {}
    /\ NoScan
    /\ NoCVec
    /\ feature \in Builds
    /\ vcall = [called |-> FALSE]
    /\ NoLibrary

\* The loader calls version.
Version ==
    /\ ~vcall.called
    /\ \E v \in VersionStrings :
         vcall' = [called |-> TRUE, version |-> v, out |-> version(feature, v)]
    /\ UNCHANGED <<pc, site, prot, frame, mmap, patch, cpu, areas>>
    /\ UNCHANGED <<tvars, race, scan, cvars, feature, lvars>>

NextVersion == Version

SpecVersion == InitVersion /\ [][NextVersion]_vars

\* --------------------------------------------------------------------- init
\* Floats are counted in tenths: 14.0 is 140, 0.3 is 3.
F32_ONE == 10

\* Config::default
Config_default ==
    [enable_anti_wobble |-> FALSE,
     enable_unblocked_guns |-> FALSE,
     enable_arcade_zoom |-> TRUE,
     max_zoom_level |-> 5,
     min_zoom_level |-> 3,
     zoom_levels |-> <<140, 70, 10, 7, 5, 3>>]

ConfigFields == DOMAIN Config_default

\* Config::load: read_to_string fails on a missing file; serde_json::from_str
\* fails on text that is no JSON, on an object without one of the fields and
\* on a zoom level that is no u8.
Config_load(f) ==
    IF f.kind = "missing" \/ f.kind = "garbage"
    THEN [ok |-> FALSE, config |-> [loaded |-> FALSE]]
    ELSE IF /\ ConfigFields \subseteq DOMAIN f.value
            /\ f.value.max_zoom_level \in 0..255
            /\ f.value.min_zoom_level \in 0..255
         THEN [ok |-> TRUE, config |-> [k \in ConfigFields |-> f.value[k]]]
         ELSE [ok |-> FALSE, config |-> [loaded |-> FALSE]]

\* Config::save: the file holds the record when the directory and the file
\* could be written, and is left as it was otherwise.
Config_save(c, f, written) ==
    IF written
    THEN [ok |-> TRUE, file |-> [kind |-> "json", value |-> c]]
    ELSE [ok |-> FALSE, file |-> f]

\* The zoom level lists of the configurations followed: the default, a short
\* one, none.
ZoomLists == {Config_default.zoom_levels, <<140, 70>>, <<>>}

Configs ==
    {[Config_default EXCEPT !.enable_anti_wobble = a,
                            !.enable_unblocked_guns = g,
                            !.enable_arcade_zoom = z,
                            !.zoom_levels = l]
       : a \in BOOLEAN, g \in BOOLEAN, z \in BOOLEAN, l \in ZoomLists}

\* What Modloader/config/qol.json may be when init runs.
ConfigFiles ==
    {[kind |-> "missing"], [kind |-> "garbage"]}
        \cup {[kind |-> "json", value |-> c] : c \in Configs}
        \cup {[kind |-> "json",
                value |-> [Config_default EXCEPT !.max_zoom_level = 256]],
               [kind |-> "json",
                value |-> [k \in ConfigFields \ {"zoom_levels"} |->
                             Config_default[k]]]}

\* The statics of zoom.rs.
ZoomStatics ==
    [MIN_ZOOM |-> 3, MAX_ZOOM |-> 3, ZOOM_LEVELS |-> <<>>,
     writes |-> [MIN_ZOOM |-> 0, MAX_ZOOM |-> 0, ZOOM_LEVELS |-> 0]]

\* An assignment to one of the statics; `writes` counts them.
store(z, name, value) ==
    [z EXCEPT ![name] = value, !.writes[name] = z.writes[name] + 1]

\* The address tables.
dumpable_address(build) ==
    IF cfg(build, "1_151")
    THEN <<\hC0, \h40, \h02, \h40, \h01, \h00, \h00, \h00>>
    ELSE <<\hE0, \h56, \h02, \h40, \h01, \h00, \h00, \h00>>

patch_zoom_address(build) ==
    IF cfg(build, "1_151")
    THEN <<\h72, \hDF, \h1A, \h40, \h01, \h00, \h00, \h00>>
    ELSE <<\hC9, \h31, \h2C, \h40, \h01, \h00, \h00, \h00>>

override_count(build) == IF cfg(build, "1_151") THEN 20 ELSE 14

patch_levels_address(build) ==
    IF cfg(build, "1_151")
    THEN <<\h71, \h93, \h24, \h40, \h01, \h00, \h00, \h00>>
    ELSE <<\h3F, \hB0, \h26, \h40, \h01, \h00, \h00, \h00>>

patch_sector_blocking_address == <<\h4D, \h31, \h03, \h40, \h01, \h00, \h00, \h00>>

\* Where the loader put the injected routines.
fn_set_dumpable    == <<\h10, \h30, \h54, \h76, \hFB, \h7F, \h00, \h00>>
fn_set_zoom_level  == <<\h10, \h31, \h54, \h76, \hFB, \h7F, \h00, \h00>>
fn_calc_zoom_value == <<\h10, \h32, \h54, \h76, \hFB, \h7F, \h00, \h00>>

InitSites ==
    UNION {{dumpable_address(b), patch_zoom_address(b), patch_levels_address(b)}
           : b \in Builds}

\* The unmapped addresses of a process in which every candidate around the
\* sites is unmapped, and of one in which all steps of CaveSteps are mapped.
InitLayouts ==
    {UNION {Candidates(address) : address \in InitSites},
     UNION {Candidates(address) \ {CaveAddress(address, k) : k \in CaveSteps}
            : address \in InitSites}}

\* The bytes of the host at a site of sz bytes, and two more.
HostBytes(sz) == [i \in 1..(sz + 2) |-> DEAD_BEEF[((i - 1) % 4) + 1]]

\* The host zoom indexes followed.
MaxZoomIndex == 7

InitLibrary ==
    /\ NoTree
    /\ IdlePatch
    /\ NoRace
    /\ areas \in InitLayouts
    /\ NoScan
    /\ NoCVec
    /\ feature \in Builds
    /\ vcall = [called |-> FALSE]
    /\ ipc = "load"
    /\ config = [loaded |-> FALSE]
    /\ file \in ConfigFiles
    /\ log = <<>>
    /\ locals = [old_protect |-> "0"]
    /\ installed = {}
    /\ zoom = ZoomStatics
    /\ hcall = [routine |-> "none"]

\* Patch::patch_call is entered for a site of the host, whose page has the
\* protection p.
EnterPatchCall(address, function, sz, save_overwritten, allow_return, p) ==
    /\ pc' = "relax"
    /\ site' = HostBytes(sz)
    /\ prot' = p
    /\ frame' = [NoFrame EXCEPT !.op = "patch_call", !.address = address,
                                !.function = function, !.size = sz,
                                !.save_overwritten = save_overwritten,
                                !.allow_return = allow_return,
                                !.before = HostBytes(sz), !.prot_before = p]
    /\ mmap' = [mapped |-> FALSE]
    /\ patch' = [returned |-> FALSE]
    /\ UNCHANGED <<cpu, areas>>

\* Patch::overwrite is entered for a site of the host.
EnterOverwrite(address, data, p) ==
    /\ pc' = "relax"
    /\ site' = HostBytes(Len(data))
    /\ prot' = p
    /\ frame' = [NoFrame EXCEPT !.op = "overwrite", !.address = address,
                                !.data = data, !.size = Len(data),
                                !.before = HostBytes(Len(data)),
                                !.prot_before = p]
    /\ mmap' = [mapped |-> FALSE]
    /\ patch' = [returned |-> FALSE]
    /\ UNCHANGED <<cpu, areas>>

\* The Patch that patch_call or overwrite has just returned: what it was made
\* for and the mapping it owns (mmap: Some or None; mem: where the page is).
ReturnedPatch ==
    [function |-> frame.function, address |-> frame.address,
     mmap |-> patch.mmap,
     mem |-> IF mmap.mapped THEN mmap.addr ELSE Word(0)]

\* The candidate addresses that lie in the page of the returned Patch.
PageOf(p) ==
    IF p.mmap = "Some"
    THEN {a \in UNION {Candidates(address) : address \in InitSites} :
            InPage(a, p.mem)}
    ELSE {}

\* std::mem::forget(p): the Patch is not dropped, its mapping stays for the
\* life of the process.  (Letting p go out of scope instead would drop it:
\* the Mmap it owns is unmapped.)
Leaked == installed \cup {ReturnedPatch}

forget_dropped ==
    /\ installed' = installed
    /\ areas' = areas \cup PageOf(ReturnedPatch)

forget ==
    /\ installed' = Leaked
    /\ areas' = areas

\* let config = match Config::load(..) { .. }
LoadConfig ==
    /\ ipc = "load"
    /\ LET r == Config_load(file)
       IN  IF r.ok
           THEN /\ config' = r.config
                /\ UNCHANGED <<file, log>>
           ELSE \E written \in BOOLEAN :
                  LET conf == Config_default
                      s == Config_save(conf, file, written)
                  IN  /\ config' = conf
                      /\ file' = s.file
                      /\ log' = log \o <<"Failed to load config",
                                          "Using default config",
                                          IF s.ok
                                          THEN "Default config saved"
                                          ELSE "Failed to save default config">>
    /\ ipc' = "anti_wobble"
    /\ UNCHANGED <<locals, installed, zoom, hcall, feature, vcall>>
    /\ UNCHANGED <<mvars, tvars, race, scan, cvars>>

\* if config.enable_anti_wobble { dumpable::dumpable(); .. }: dumpable makes
\* the page writable itself and calls patch_call.  Its call names no
\* allow_return; any is taken.
AntiWobble ==
    /\ ipc = "anti_wobble"
    /\ IF config.enable_anti_wobble
       THEN /\ locals' = [old_protect |-> "PAGE_EXECUTE_READ"]
            /\ \E allow_return \in ReturnType :
                 EnterPatchCall(dumpable_address(feature), fn_set_dumpable, 6,
                                TRUE, allow_return, "PAGE_EXECUTE_READWRITE")
            /\ ipc' = "dumpable"
            /\ UNCHANGED log
       ELSE /\ log' = Append(log, "Anti-wobble disabled")
            /\ ipc' = "arcade_zoom"
            /\ UNCHANGED <<locals, mvars>>
    /\ UNCHANGED <<config, file, installed, zoom, hcall, feature, vcall>>
    /\ UNCHANGED <<tvars, race, scan, cvars>>

\* patch_call has returned to dumpable, which restores the protection; init
\* logs.
DumpableReturns ==
    /\ ipc = "dumpable"
    /\ pc = "done"
    /\ forget
    /\ prot' = locals.old_protect
    /\ locals' = [old_protect |-> prot]
    /\ pc' = "idle"
    /\ log' = Append(log, "Anti-wobble enabled")
    /\ ipc' = "arcade_zoom"
    /\ UNCHANGED <<site, frame, mmap, patch, cpu>>
    /\ UNCHANGED <<config, file, zoom, hcall, feature, vcall>>
    /\ UNCHANGED <<tvars, race, scan, cvars>>

\* if config.enable_arcade_zoom { zoom::patch_zoom(min, max); .. }:
\* patch_zoom stores the two bounds and calls patch_call.
ArcadeZoom ==
    /\ ipc = "arcade_zoom"
    /\ IF config.enable_arcade_zoom
       THEN /\ zoom' = store(store(zoom, "MAX_ZOOM", config.max_zoom_level),
                             "MIN_ZOOM", config.min_zoom_level)
            /\ EnterPatchCall(patch_zoom_address(feature), fn_set_zoom_level,
                              override_count(feature), FALSE, "None",
                              "PAGE_EXECUTE_READ")
            /\ ipc' = "patch_zoom"
            /\ UNCHANGED log
       ELSE /\ log' = Append(log, "Arcade zoom disabled")
            /\ ipc' = "unblocked_guns"
            /\ UNCHANGED <<zoom, mvars>>
    /\ UNCHANGED <<config, file, locals, installed, hcall, feature, vcall>>
    /\ UNCHANGED <<tvars, race, scan, cvars>>

\* The warnings of init about the zoom levels.
zoom_warnings(c) ==
    (IF Len(c.zoom_levels) < 5 THEN <<"less than 5 zoom levels">> ELSE <<>>)
    \o (IF Len(c.zoom_levels) < c.max_zoom_level
        THEN <<"more max zoom levels than zoom levels">>
        ELSE <<>>)

\* patch_zoom has returned; init logs, warns and calls patch_levels, which
\* stores the list and calls patch_call.
PatchZoomReturns ==
    /\ ipc = "patch_zoom"
    /\ pc = "done"
    /\ forget
    /\ log' = Append(log, "Arcade zoom enabled") \o zoom_warnings(config)
    /\ zoom' = store(zoom, "ZOOM_LEVELS", config.zoom_levels)
    /\ EnterPatchCall(patch_levels_address(feature), fn_calc_zoom_value, 5,
                      FALSE, "Xmm0", "PAGE_EXECUTE_READ")
    /\ ipc' = "patch_levels"
    /\ UNCHANGED <<config, file, locals, hcall, feature, vcall>>
    /\ UNCHANGED <<tvars, race, scan, cvars>>

\* patch_levels has returned.
PatchLevelsReturns_stores ==
    /\ ipc = "patch_levels"
    /\ pc = "done"
    /\ forget
    /\ pc' = "idle"
    /\ ipc' = "unblocked_guns"
    /\ zoom' = store(zoom, "MIN_ZOOM", config.min_zoom_level)
    /\ UNCHANGED <<site, prot, frame, mmap, patch, cpu>>
    /\ UNCHANGED <<config, file, log, locals, hcall, feature, vcall>>
    /\ UNCHANGED <<tvars, race, scan, cvars>>

PatchLevelsReturns ==
    /\ ipc = "patch_levels"
    /\ pc = "done"
    /\ forget
    /\ pc' = "idle"
    /\ ipc' = "unblocked_guns"
    /\ UNCHANGED <<site, prot, frame, mmap, patch, cpu>>
    /\ UNCHANGED <<config, file, log, locals, zoom, hcall, feature, vcall>>
    /\ UNCHANGED <<tvars, race, scan, cvars>>

\* if config.enable_unblocked_guns { guns::patch_sector_blocking(); .. },
\* then init returns true.  patch_sector_blocking overwrites six bytes in
\* 1.151 and does nothing otherwise.
UnblockedGuns ==
    /\ ipc = "unblocked_guns"
    /\ IF config.enable_unblocked_guns
       THEN IF cfg(feature, "1_151")
            THEN /\ EnterOverwrite(patch_sector_blocking_address,
                                   [i \in 1..6 |-> NOP], "PAGE_EXECUTE_READ")
                 /\ ipc' = "patch_sector_blocking"
                 /\ UNCHANGED log
            ELSE /\ log' = Append(log, "Unblocked guns enabled")
                 /\ ipc' = "returned_true"
                 /\ UNCHANGED mvars
       ELSE /\ log' = Append(log, "Unblocked guns disabled")
            /\ ipc' = "returned_true"
            /\ UNCHANGED mvars
    /\ UNCHANGED <<config, file, locals, installed, zoom, hcall, feature, vcall>>
    /\ UNCHANGED <<tvars, race, scan, cvars>>

\* overwrite has returned to patch_sector_blocking; init logs and returns
\* true.
SectorBlockingReturns ==
    /\ ipc = "patch_sector_blocking"
    /\ pc = "done"
    /\ forget
    /\ pc' = "idle"
    /\ log' = Append(log, "Unblocked guns enabled")
    /\ ipc' = "returned_true"
    /\ UNCHANGED <<site, prot, frame, mmap, patch, cpu>>
    /\ UNCHANGED <<config, file, locals, zoom, hcall, feature, vcall>>
    /\ UNCHANGED <<tvars, race, scan, cvars>>

\* The message of the expect that failed.
panic_message ==
    IF frame.op = "patch_call" /\ ~frame.memory_cave.found
    THEN "No memory cave found"
    ELSE IF frame.op = "patch_call" /\ ~mmap.mapped
    THEN "Unable to allocate memory map"
    ELSE "Jump offset greater than 32 bits"

\* A panic of the patch routine leaves init, an extern "C" function: the
\* message is printed and init does not go on.
InitAborts ==
    /\ ipc \in {"dumpable", "patch_zoom", "patch_levels", "patch_sector_blocking"}
    /\ pc = "panic"
    /\ log' = Append(log, panic_message)
    /\ ipc' = "aborted"
    /\ UNCHANGED <<config, file, locals, installed, zoom, hcall, feature, vcall>>
    /\ UNCHANGED <<mvars, tvars, race, scan, cvars>>

\* The host reaches the site of a routine: the site's patch was made.
Patched(function) ==
    /\ ipc # "aborted"
    /\ \/ \E p \in installed : p.function = function
       \/ pc = "done" /\ frame.op = "patch_call" /\ frame.function = function

\* set_zoom_level: the two bounds are copied to the host's.
set_zoom_level(z) == [max_level |-> z.MAX_ZOOM, min_level |-> z.MIN_ZOOM]

\* ZOOM_LEVELS[i]: the index of a Vec is checked.
index(v, i) ==
    IF i < Len(v)
    THEN [panic |-> FALSE, value |-> v[i + 1]]
    ELSE [panic |-> TRUE, value |-> 0]

\* calc_zoom_value: outside the arcade mode the host's own routine answers.
calc_zoom_value(z, is_in_arcade, zoom_value) ==
    IF ~is_in_arcade
    THEN [panic |-> FALSE, real |-> TRUE, value |-> 0]
    ELSE IF zoom_value > Len(z.ZOOM_LEVELS)
    THEN [panic |-> FALSE, real |-> FALSE, value |-> F32_ONE]
    ELSE LET r == index(z.ZOOM_LEVELS, zoom_value)
         IN  [panic |-> r.panic, real |-> FALSE, value |-> r.value]

\* The host runs set_zoom_level.
HostSetZoomLevel ==
    /\ Patched(fn_set_zoom_level)
    /\ hcall' = [routine |-> "set_zoom_level", out |-> set_zoom_level(zoom)]
    /\ UNCHANGED <<ipc, config, file, log, locals, installed, zoom, feature, vcall>>
    /\ UNCHANGED <<mvars, tvars, race, scan, cvars>>

\* The host runs calc_zoom_value, with its two values at IS_IN_ARCADE and
\* ZOOM_LEVEL_ADDR.
HostCalcZoomValue ==
    /\ Patched(fn_calc_zoom_value)
    /\ \E is_in_arcade \in BOOLEAN, zoom_value \in 0..MaxZoomIndex :
         hcall' = [routine |-> "calc_zoom_value", is_in_arcade |-> is_in_arcade,
                   zoom_value |-> IF is_in_arcade THEN zoom_value ELSE 0,
                   out |-> calc_zoom_value(zoom, is_in_arcade, zoom_value)]
    /\ UNCHANGED <<ipc, config, file, log, locals, installed, zoom, feature, vcall>>
    /\ UNCHANGED <<mvars, tvars, race, scan, cvars>>

NextInit ==
    \/ LoadConfig
    \/ AntiWobble
    \/ DumpableReturns
    \/ ArcadeZoom
    \/ PatchZoomReturns
    \/ PatchLevelsReturns
    \/ UnblockedGuns
    \/ SectorBlockingReturns
    \/ InitAborts
    \/ Relax
    \/ Snapshot
    \/ SearchCave
    \/ MapCave
    \/ WriteJump
    \/ WriteNops
    \/ CopyData
    \/ Restore
    \/ BuildTrampoline
    \/ MakeExec
    \/ ReturnOverwrite
    \/ HostSetZoomLevel
    \/ HostCalcZoomValue

SpecInit == InitLibrary /\ [][NextInit]_vars

\* ------------------------------------------- two callers at the same time
\* patch_call and overwrite take no lock and keep nothing between calls:
\* two threads that run them share the protection of the pages of the host
\* and its address space, and nothing else.  A thread's arguments, locals,
\* and mapping are its own; the two sites do not overlap, so the bytes at a
\* site are written by one thread only.
Threads == {1, 2}

\* The page, of page_size bytes, that holds an address.
PageStart(a) == <<0, a[2] - (a[2] % 16)>> \o SubSeq(a, 3, 8)

\* The pages that hold a byte of the 0x100 bytes from an address.
Window(address) == {PageStart(address), PageStart(Add(address, Word(255)))}

\* VirtualProtect(address, 0x100, new, &mut old): every page of the window
\* gets the new protection, old receives that of the first page.
VirtualProtect(p, address, new) ==
    [old  |-> p[PageStart(address)],
     prot |-> [q \in DOMAIN p |-> IF q \in Window(address) THEN new ELSE p[q]]]

\* A write to a page that is not writable is an access violation.
Writable(p, address) == p[PageStart(address)] = "PAGE_EXECUTE_READWRITE"

\* The site of the first thread, that of patch_zoom.
FirstSite == <<\hC9, \h31, \h2C, \h40, \h01, \h00, \h00, \h00>>

\* The sites of the second thread: sixteen bytes above the first site, in
\* the same window, and the site of patch_levels, in another page.
SecondSites == {Add(FirstSite, Word(16))} \cup (Sites \ {FirstSite})

\* The calls a thread makes at an address, on the bytes s: patch_call as
\* test_patch_call makes it (the overwritten bytes are saved, nothing is
\* returned), with the shortest and the longest patch, and overwrite with
\* the float 1.0 of patch_shake.
ThreadCalls(address, s) ==
    {[NoFrame EXCEPT !.op = "patch_call", !.address = address,
                     !.function = function, !.size = sz,
                     !.save_overwritten = TRUE, !.before = s]
        : function \in Functions, sz \in {5, MaxSize}}
    \cup {[NoFrame EXCEPT !.op = "overwrite", !.address = address,
                          !.data = <<\h00, \h00, \h80, \h3F>>, !.size = 4,
                          !.before = s]}

\* Both threads have entered their call; every page of the host is
\* PAGE_EXECUTE_READ and every candidate address around the sites is unmapped.
InitRace ==
    /\ NoTree
    /\ IdlePatch
    /\ NoScan
    /\ NoCVec
    /\ NoInit
    /\ \E second \in SecondSites, s \in SitePatterns :
         /\ areas = UNION {Candidates(a) : a \in {FirstSite, second}}
         /\ \E f1 \in ThreadCalls(FirstSite, s), f2 \in ThreadCalls(second, s) :
              race = [on |-> TRUE,
                      before |-> [q \in Window(FirstSite) \cup Window(second)
                                    |-> "PAGE_EXECUTE_READ"],
                      prot |-> [q \in Window(FirstSite) \cup Window(second)
                                  |-> "PAGE_EXECUTE_READ"],
                      th |-> [t \in Threads |->
                                [pc |-> "relax",
                                 frame |-> IF t = 1 THEN f1 ELSE f2,
                                 site |-> s,
                                 mmap |-> [mapped |-> FALSE]]]]

\* VirtualProtect(address, 0x100, PAGE_EXECUTE_READWRITE, &mut old_protect)
ThreadRelax(t) ==
    /\ race.on
    /\ race.th[t].pc = "relax"
    /\ LET r == VirtualProtect(race.prot, race.th[t].frame.address,
                               "PAGE_EXECUTE_READWRITE")
       IN  race' = [race EXCEPT !.prot = r.prot,
                                !.th[t].frame.old_protect = r.old,
                                !.th[t].pc = "snapshot"]
    /\ UNCHANGED <<mvars, tvars, scan, cvars, ivars>>

\* let overwritten = process_bytes.to_vec()
ThreadSnapshot(t) ==
    /\ race.on
    /\ race.th[t].pc = "snapshot"
    /\ LET th == race.th[t]
       IN  race' = [race EXCEPT
                      !.th[t].frame.overwritten = SubSeq(th.site, 1, th.frame.size),
                      !.th[t].pc = IF th.frame.op = "patch_call"
                                   THEN "search" ELSE "copy"]
    /\ UNCHANGED <<mvars, tvars, scan, cvars, ivars>>

\* search_memory_cave(address).expect("No memory cave found")
ThreadSearchCave(t) ==
    /\ race.on
    /\ race.th[t].pc = "search"
    /\ LET memory_cave == search_memory_cave(race.th[t].frame.address, areas)
       IN  race' = [race EXCEPT
                      !.th[t].frame.memory_cave = memory_cave,
                      !.th[t].pc = IF memory_cave.found THEN "map" ELSE "panic"]
    /\ UNCHANGED <<mvars, tvars, scan, cvars, ivars>>

\* MmapOptions::new(page_size).with_address(memory_cave).map_mut().expect(..):
\* as in MapCave; the system maps no page at an address that lies in the
\* page the other thread has mapped.
ThreadMapCave(t) ==
    /\ race.on
    /\ race.th[t].pc = "map"
    /\ \/ /\ race' = [race EXCEPT !.th[t].pc = "panic"]
          /\ UNCHANGED areas
       \/ \E mem \in {race.th[t].frame.memory_cave.address,
                      AlignDown(race.th[t].frame.memory_cave.address)} :
             /\ \A u \in Threads \ {t} :
                  race.th[u].mmap.mapped => ~InPage(mem, race.th[u].mmap.addr)
             /\ race' = [race EXCEPT
                           !.th[t].mmap = [mapped |-> TRUE, addr |-> mem,
                                           bytes |-> <<>>, exec |-> FALSE],
                           !.th[t].pc = "jump"]
             /\ areas' = {a \in areas : ~InPage(a, mem)}
    /\ UNCHANGED <<pc, site, prot, frame, mmap, patch, cpu, tvars, scan, cvars, ivars>>

\* The relative jump at the site; the write faults when the page of the site
\* is not writable.
ThreadWriteJump(t) ==
    /\ race.on
    /\ race.th[t].pc = "jump"
    /\ LET th == race.th[t]
           r  == site_jump(th.site, th.frame.address, th.mmap.addr)
       IN  IF Writable(race.prot, th.frame.address)
           THEN race' = [race EXCEPT !.th[t].site = r.bytes,
                                     !.th[t].pc = IF r.panic THEN "panic" ELSE "nops"]
           ELSE race' = [race EXCEPT !.th[t].pc = "fault"]
    /\ UNCHANGED <<mvars, tvars, scan, cvars, ivars>>

\* let nops = vec![0x90; size - 5]; write_data(address, &mut 5, &nops); a
\* copy of no byte touches no page.
ThreadWriteNops(t) ==
    /\ race.on
    /\ race.th[t].pc = "nops"
    /\ LET th == race.th[t]
       IN  IF th.frame.size < 5
           THEN race' = [race EXCEPT !.th[t].pc = "panic"]
           ELSE IF th.frame.size = 5 \/ Writable(race.prot, th.frame.address)
           THEN race' = [race EXCEPT
                           !.th[t].site = write_bytes(th.site, 5,
                                            [i \in 1..(th.frame.size - 5) |-> NOP]),
                           !.th[t].pc = "restore"]
           ELSE race' = [race EXCEPT !.th[t].pc = "fault"]
    /\ UNCHANGED <<mvars, tvars, scan, cvars, ivars>>

\* copy_nonoverlapping(data.as_ptr(), address, data.len())
ThreadCopyData(t) ==
    /\ race.on
    /\ race.th[t].pc = "copy"
    /\ LET th == race.th[t]
       IN  IF Writable(race.prot, th.frame.address)
           THEN race' = [race EXCEPT
                           !.th[t].site = write_bytes(th.site, 0, th.frame.data),
                           !.th[t].pc = "restore"]
           ELSE race' = [race EXCEPT !.th[t].pc = "fault"]
    /\ UNCHANGED <<mvars, tvars, scan, cvars, ivars>>

\* VirtualProtect(address, 0x100, old_protect, &mut old_protect)
ThreadRestore(t) ==
    /\ race.on
    /\ race.th[t].pc = "restore"
    /\ LET th == race.th[t]
           r  == VirtualProtect(race.prot, th.frame.address, th.frame.old_protect)
       IN  race' = [race EXCEPT
                      !.prot = r.prot,
                      !.th[t].frame.old_protect = r.old,
                      !.th[t].pc = IF th.frame.op = "patch_call"
                                   THEN "build" ELSE "return"]
    /\ UNCHANGED <<mvars, tvars, scan, cvars, ivars>>

\* The trampoline is written to the thread's mapping.
ThreadBuildTrampoline(t) ==
    /\ race.on
    /\ race.th[t].pc = "build"
    /\ LET r == trampoline(race.th[t].frame, race.th[t].mmap.addr)
       IN  race' = [race EXCEPT
                      !.th[t].mmap.bytes = r.bytes,
                      !.th[t].pc = IF r.panic THEN "panic" ELSE "make_exec"]
    /\ UNCHANGED <<mvars, tvars, scan, cvars, ivars>>

\* mmap.make_exec().unwrap(); Patch { size, overwritten, mmap: Some(mmap) }
ThreadMakeExec(t) ==
    /\ race.on
    /\ race.th[t].pc = "make_exec"
    /\ race' = [race EXCEPT !.th[t].mmap.exec = TRUE, !.th[t].pc = "done"]
    /\ UNCHANGED <<mvars, tvars, scan, cvars, ivars>>

\* Patch { size: data.len(), overwritten, mmap: None }
ThreadReturnOverwrite(t) ==
    /\ race.on
    /\ race.th[t].pc = "return"
    /\ race' = [race EXCEPT !.th[t].pc = "done"]
    /\ UNCHANGED <<mvars, tvars, scan, cvars, ivars>>

\* The scheduler runs the next statement of either thread.
NextRace ==
    \E t \in Threads :
        \/ ThreadRelax(t)
        \/ ThreadSnapshot(t)
        \/ ThreadSearchCave(t)
        \/ ThreadMapCave(t)
        \/ ThreadWriteJump(t)
        \/ ThreadWriteNops(t)
        \/ ThreadCopyData(t)
        \/ ThreadRestore(t)
        \/ ThreadBuildTrampoline(t)
        \/ ThreadMakeExec(t)
        \/ ThreadReturnOverwrite(t)

SpecRace == InitRace /\ [][NextRace]_vars

\* ============================================================ properties
Root == heap[sentinel].parent

\* The non-sentinel nodes of the tree.
Nodes == {n \in DOMAIN heap : ~heap[n].is_sentinel}

\* The keys for which insert was called at least once.
InsertedKeys == {k \in DOMAIN inserted : inserted[k] # 0}

\* The nodes reached from n through left and right links.
RECURSIVE Reachable(_, _)
Reachable(h, n) ==
    IF h[n].is_sentinel
    THEN {}
    ELSE {n} \cup Reachable(h, h[n].left) \cup Reachable(h, h[n].right)

\* The numbers of black nodes met on the paths from n down to a sentinel link.
RECURSIVE PathBlacks(_, _)
PathBlacks(h, n) ==
    IF h[n].is_sentinel
    THEN {0}
    ELSE {c + (IF h[n].is_red THEN 0 ELSE 1) :
            c \in PathBlacks(h, h[n].left) \cup PathBlacks(h, h[n].right)}

\* The numbers of nodes met on those paths.
RECURSIVE PathLengths(_, _)
PathLengths(h, n) ==
    IF h[n].is_sentinel
    THEN {0}
    ELSE {c + 1 : c \in PathLengths(h, h[n].left) \cup PathLengths(h, h[n].right)}

NoRedRedIn(h) ==
    \A n \in DOMAIN h :
        (~h[n].is_sentinel /\ h[n].is_red)
            => (~h[h[n].left].is_red /\ ~h[h[n].right].is_red)

EqualBlackHeightIn(h, s) == Cardinality(PathBlacks(h, h[s].parent)) = 1

InsertReturned == last.op = "insert" /\ ~panicked

\* C1: after any sequence of inserts on a new tree, no red non-sentinel node
\* has a red left or right child.
C1_NoRedRed == NoRedRedIn(heap)

\* C1 witness: a full tree in which a red node has (black) non-sentinel
\* children, so the fix-up has recoloured and rotated.
C1_Witness ==
    /\ InsertReturned /\ ~last.existed
    /\ size = MaxKey
    /\ \E n \in Nodes : /\ heap[n].is_red
                        /\ ~heap[heap[n].left].is_sentinel
                        /\ ~heap[heap[n].right].is_sentinel

\* C2: after any sequence of inserts on a new tree, every path from the root
\* down to a sentinel link passes through the same number of black nodes.
C2_EqualBlackHeight == EqualBlackHeightIn(heap, sentinel)

\* C2 witness: a tree whose root-to-sentinel paths count two, three and four
\* nodes and yet all count two black nodes.
C2_Witness ==
    /\ InsertReturned
    /\ PathBlacks(heap, Root) = {2}
    /\ {2, 3, 4} \subseteq PathLengths(heap, Root)

\* C3: after every insert call of a sequence of inserts on a new tree, the
\* node sentinel.parent points to is black.
C3_RootBlack == InsertReturned => ~heap[Root].is_red

\* C3 witness: the fourth node was inserted; the red-uncle case recoloured the
\* root's two children black and the root red, and the root was forced black.
C3_Witness ==
    /\ InsertReturned /\ ~last.existed
    /\ size = 4
    /\ ~heap[Root].is_red
    /\ ~heap[heap[Root].left].is_sentinel  /\ ~heap[heap[Root].left].is_red
    /\ ~heap[heap[Root].right].is_sentinel /\ ~heap[heap[Root].right].is_red

InOrderKeys ==
    LET t == in_order_traverse(heap, Root).items
    IN  [i \in 1..Len(t) |-> t[i][1]]

\* C4: the in-order traversal from the root visits keys in strictly ascending
\* order, and the keys visited are exactly the distinct keys inserted.
C4_InOrderSorted ==
    /\ \A i \in 1..(Len(InOrderKeys) - 1) : InOrderKeys[i] < InOrderKeys[i + 1]
    /\ {InOrderKeys[i] : i \in 1..Len(InOrderKeys)} = InsertedKeys

\* C4 witness: every key was inserted, the last insert repeated a key, and
\* the smallest key is neither the root nor a child of the root.
C4_Witness ==
    /\ InsertReturned /\ last.existed
    /\ Len(InOrderKeys) = MaxKey
    /\ heap[heap[NodeAddr(1)].parent].parent # sentinel
    /\ heap[NodeAddr(1)].parent # sentinel

MinKey == CHOOSE k \in InsertedKeys : \A j \in InsertedKeys : k <= j

MaxInsertedKey == CHOOSE k \in InsertedKeys : \A j \in InsertedKeys : k >= j

\* C5: after every insert, sentinel.left is the node of the smallest key and
\* has a sentinel left child, sentinel.right is the node of the largest key
\* and has a sentinel right child; in the empty tree both are the sentinel.
C5_SentinelMinMax ==
    IF Nodes = {}
    THEN heap[sentinel].left = sentinel /\ heap[sentinel].right = sentinel
    ELSE /\ ~heap[heap[sentinel].left].is_sentinel
         /\ heap[heap[sentinel].left].key = MinKey
         /\ heap[heap[heap[sentinel].left].left].is_sentinel
         /\ ~heap[heap[sentinel].right].is_sentinel
         /\ heap[heap[sentinel].right].key = MaxInsertedKey
         /\ heap[heap[heap[sentinel].right].right].is_sentinel

\* C5 witness: after an insert of a new key, the minimum and the maximum are
\* both at depth three or more, away from the root.
C5_Witness ==
    /\ InsertReturned /\ ~last.existed
    /\ size >= 7
    /\ heap[heap[heap[sentinel].left].parent].parent # sentinel
    /\ heap[heap[sentinel].left].parent # sentinel
    /\ heap[heap[heap[sentinel].right].parent].parent # sentinel
    /\ heap[heap[sentinel].right].parent # sentinel

\* C6: size equals the number of non-sentinel nodes reachable from the root,
\* which equals the number of distinct keys inserted.
C6_SizeCounts ==
    /\ size = Cardinality(Reachable(heap, Root))
    /\ size = Cardinality(InsertedKeys)

\* C6 witness: an insert of a key that was already present has returned.
C6_Witness ==
    /\ InsertReturned /\ last.existed
    /\ size >= 3
    /\ size < MaxKey

KeyPresent(k) == \E n \in Nodes : heap[n].key = k

NodeOfKey(k) == CHOOSE n \in Nodes : heap[n].key = k

\* C7: insert(k, v) with k already present replaces that node's value by v and
\* changes nothing else: size, every link and colour, the sentinel's links.
C7_DuplicateFrame ==
    [][\A k \in DataKeys, v \in Vals :
         (KeyPresent(k) /\ Insert(k, v))
            => /\ size' = size
               /\ sentinel' = sentinel
               /\ heap' = [heap EXCEPT ![NodeOfKey(k)].data = v]]_vars

\* C7 witness: an insert of a present key returned and the node it found now
\* holds a value other than that of some other node.
C7_Witness ==
    /\ InsertReturned /\ last.existed
    /\ size >= 3
    /\ \E n, m \in Nodes : heap[n].data # heap[m].data

\* C8: get_map() maps each distinct inserted key to the value of the most
\* recent insert for that key (so an insert changes no other key's value).
C8_MapLatest ==
    (last.op = "get_map")
        => last.map = [k \in InsertedKeys |-> inserted[k]]

\* C8 witness: get_map returned a map of at least three keys holding both
\* values.
C8_Witness ==
    /\ last.op = "get_map"
    /\ Cardinality(DOMAIN last.map) >= 3
    /\ {last.map[k] : k \in DOMAIN last.map} = Vals

\* The i-th smallest of the inserted keys.
KeyOfRank(i) ==
    CHOOSE k \in InsertedKeys : Cardinality({j \in InsertedKeys : j <= k}) = i

\* C9: get_items() returns exactly one value per non-sentinel node, ordered by
\* ascending key; on an empty tree get_items() and get_map() return an empty
\* result without a single call of in_order_traverse.
C9_ItemsOrdered ==
    /\ (last.op = "get_items")
          => /\ Len(last.items) = Cardinality(Nodes)
             /\ \A i \in 1..Len(last.items) : last.items[i] = inserted[KeyOfRank(i)]
    /\ (last.op \in {"get_items", "get_map"} /\ heap[sentinel].parent = sentinel)
          => /\ last.items = <<>>
             /\ last.map = EmptyMap
             /\ last.calls = 0

\* C9 witness: get_items returned at least four values, not all equal.
C9_Witness ==
    /\ last.op = "get_items"
    /\ Len(last.items) >= 4
    /\ \E i, j \in 1..Len(last.items) : last.items[i] # last.items[j]

\* C9 witness of the empty case is the initial tree queried.
C9_EmptyQueried ==
    /\ last.op \in {"get_items", "get_map"}
    /\ heap[sentinel].parent = sentinel

\* C10: an insert of a new key into a tree that is valid but for its red root
\* yields a black root, no red node with a red child, equal black heights.
C10_RedRootRepaired ==
    (InsertReturned /\ last.red_root /\ ~last.existed)
        => /\ ~heap[Root].is_red
           /\ NoRedRedIn(heap)
           /\ EqualBlackHeightIn(heap, sentinel)

\* C10 witness: the insert found a red root, the red-uncle case moved up to a
\* child of the root and the loop was left there because a child of the root
\* has no grandparent: that child is red, its two children are black.
C10_Witness ==
    /\ InsertReturned /\ last.red_root /\ ~last.existed
    /\ \E n \in Nodes : /\ heap[n].is_red
                        /\ heap[n].parent = Root
                        /\ ~heap[heap[n].left].is_sentinel
                        /\ ~heap[heap[n].right].is_sentinel
                        /\ heap[heap[heap[n].left].left].is_red
                        /\ ~heap[heap[heap[n].left].left].is_sentinel

\* Every tree the host hands back is valid once its root is taken as black.
ValidButRootColour ==
    LET h == [heap EXCEPT ![Root].is_red = FALSE]
    IN  panicked \/ (NoRedRedIn(h) /\ EqualBlackHeightIn(h, sentinel))

\* C11 as stated: the root is black whenever insert returns, for every key,
\* also when the host handed the tree over with a red root.
C11_RootBlackAlways == InsertReturned => ~heap[Root].is_red

\* C11 amended: when insert returns the root is black, except after an insert
\* of a key that was already present into a tree whose root was red: that
\* call returns before the fix-up and leaves the root red.
C11_RootBlackUnlessUpdate ==
    InsertReturned => (heap[Root].is_red <=> (last.existed /\ last.red_root))

\* C11 witness: a present key was inserted into a host tree with a red root.
C11_Witness ==
    /\ InsertReturned /\ last.existed /\ last.red_root
    /\ size >= 3
    /\ heap[Root].is_red

\* C12: after the game's ten loadouts were inserted in their order, inserting
\* LOADOUT_LA29_GUN40 gives a tree of 11 nodes with a black root, no red node
\* with a red child, the same black count on every path, and the new name
\* right between LOADOUT_LA29_GUN37 and LOADOUT_LA29_NURS122 in order.
C12_Gun40Inserted ==
    (size = Cardinality(LoadoutNames) /\ ~panicked) =>
        /\ size = 11
        /\ ~heap[Root].is_red
        /\ NoRedRedIn(heap)
        /\ EqualBlackHeightIn(heap, sentinel)
        /\ \E i \in 1..(Len(InOrderKeys) - 2) :
               /\ InOrderKeys[i]     = LoadoutKey(LOADOUT_LA29_GUN37)
               /\ InOrderKeys[i + 1] = LoadoutKey(LOADOUT_LA29_GUN40)
               /\ InOrderKeys[i + 2] = LoadoutKey(LOADOUT_LA29_NURS122)

\* C12 witness: the custom loadout was inserted as a new key after the ten.
C12_Witness ==
    /\ InsertReturned /\ ~last.existed
    /\ NodeAddr(LoadoutKey(LOADOUT_LA29_GUN40)) \in Nodes
    /\ \A i \in DOMAIN loadouts : NodeAddr(LoadoutKey(loadouts[i])) \in Nodes
    /\ Len(InOrderKeys) = 11

\* The link fields of a node.
Links == {"left", "parent", "right"}

\* What rotate_left(x) leaves behind, y being x's right child before the call.
RotatedLeft(x) ==
    LET y == heap[x].right
        b == heap[y].left
        p == heap[x].parent
        slot == IF heap[p].is_sentinel THEN <<sentinel, "parent">>
                ELSE IF heap[p].left = x THEN <<p, "left">> ELSE <<p, "right">>
        named == {<<y, "left">>, <<x, "right">>, <<x, "parent">>, <<y, "parent">>, slot}
                 \cup (IF heap[b].is_sentinel THEN {} ELSE {<<b, "parent">>})
    IN  /\ heap'[y].left = x
        /\ heap'[x].right = b
        /\ heap'[x].parent = y
        /\ heap'[y].parent = p
        /\ ~heap[b].is_sentinel => heap'[b].parent = x
        /\ heap[slot[1]][slot[2]] = x /\ heap'[slot[1]][slot[2]] = y
        /\ ~heap[p].is_sentinel => heap'[sentinel].parent = heap[sentinel].parent
        /\ DOMAIN heap' = DOMAIN heap
        /\ \A n \in DOMAIN heap : \A f \in Links :
               <<n, f>> \notin named => heap'[n][f] = heap[n][f]

\* The mirror image for rotate_right(x), y being x's left child before the call.
RotatedRight(x) ==
    LET y == heap[x].left
        b == heap[y].right
        p == heap[x].parent
        slot == IF heap[p].is_sentinel THEN <<sentinel, "parent">>
                ELSE IF heap[p].left = x THEN <<p, "left">> ELSE <<p, "right">>
        named == {<<y, "right">>, <<x, "left">>, <<x, "parent">>, <<y, "parent">>, slot}
                 \cup (IF heap[b].is_sentinel THEN {} ELSE {<<b, "parent">>})
    IN  /\ heap'[y].right = x
        /\ heap'[x].left = b
        /\ heap'[x].parent = y
        /\ heap'[y].parent = p
        /\ ~heap[b].is_sentinel => heap'[b].parent = x
        /\ heap[slot[1]][slot[2]] = x /\ heap'[slot[1]][slot[2]] = y
        /\ ~heap[p].is_sentinel => heap'[sentinel].parent = heap[sentinel].parent
        /\ DOMAIN heap' = DOMAIN heap
        /\ \A n \in DOMAIN heap : \A f \in Links :
               <<n, f>> \notin named => heap'[n][f] = heap[n][f]

\* C13: rotate_left(x) on a node with a non-sentinel right child y makes x the
\* left child of y, hands y's old left subtree to x as its right one, puts y
\* under x's old parent in the slot that held x (the sentinel's parent link
\* when x was the root, which is otherwise untouched) and changes no other
\* link; rotate_right is the mirror image.
C13_Rotations ==
    [][\A x \in Nodes : /\ RotateLeft(x)  => RotatedLeft(x)
                        /\ RotateRight(x) => RotatedRight(x)]_vars

\* C13 witness: a left rotation of a node that was not the root and whose
\* right child had a non-sentinel left child.
C13_Witness ==
    /\ last.op = "rotate_left"
    /\ LET x == last.node
           y == heap[x].parent
       IN  /\ heap[y].left = x
           /\ ~heap[heap[x].right].is_sentinel
           /\ heap[heap[x].right].parent = x
           /\ ~heap[heap[y].parent].is_sentinel

\* The tree that holds the one key k.
Single(k) == size = 1 /\ Root = NodeAddr(k) /\ ~heap[Root].is_red

\* The tree of two keys with `top` at the root and `low` as its child on the
\* side its key belongs to.
Pair(top, low) ==
    /\ size = 2
    /\ Root = NodeAddr(top)
    /\ IF low < top THEN heap[Root].left = NodeAddr(low)
                    ELSE heap[Root].right = NodeAddr(low)

\* The tree of three keys: b black at the root, a and c its red children.
Triple(a, b, c) ==
    /\ size = 3
    /\ Root = NodeAddr(b) /\ ~heap[Root].is_red
    /\ heap[Root].left = NodeAddr(a)  /\ heap[NodeAddr(a)].is_red
    /\ heap[Root].right = NodeAddr(c) /\ heap[NodeAddr(c)].is_red
    /\ heap[NodeAddr(a)].parent = Root /\ heap[NodeAddr(c)].parent = Root

\* C14: for keys a < b < c, inserting c, b, a or a, b, c in that order into a
\* new tree ends with b black at the root, a its red left child and c its red
\* right child.  Stated step by step: the first insert gives the single-node
\* tree, the second hangs b under it, the third gives the balanced tree.
C14_ThreeInARow ==
    [][\A a \in Keys, b \in Keys, c \in Keys : (size <= 2 /\ a < b /\ b < c) =>
         /\ (size = 0 /\ Insert(c, MaxVal))   => Single(c)'
         /\ (Single(c) /\ Insert(b, MaxVal))  => Pair(c, b)'
         /\ (Pair(c, b) /\ Insert(a, MaxVal)) => Triple(a, b, c)'
         /\ (size = 0 /\ Insert(a, MaxVal))   => Single(a)'
         /\ (Single(a) /\ Insert(b, MaxVal))  => Pair(a, b)'
         /\ (Pair(a, b) /\ Insert(c, MaxVal)) => Triple(a, b, c)']_vars

\* C14 witness: a third key was inserted and the tree is the balanced one.
C14_Witness ==
    /\ InsertReturned /\ ~last.existed
    /\ \E a \in Keys, b \in Keys, c \in Keys :
          /\ a < b /\ b < c
          /\ InsertedKeys = {a, b, c}
          /\ Triple(a, b, c)

\* --------------------------------------------------------- patch manager
\* patch_call, respectively overwrite, has returned a Patch.
PatchCallReturned == pc = "done" /\ frame.op = "patch_call"

OverwriteReturned == pc = "done" /\ frame.op = "overwrite"

\* What the processor makes of a four-byte displacement: the 64-bit value
\* with the same sign.
SignExtend32(d) == d \o [i \in 1..4 |-> IF d[4] >= 128 THEN 255 ELSE 0]

\* Where the five-byte relative jump `bytes` placed at address `at` leads:
\* the address after the instruction plus the displacement.
JumpTarget(at, bytes) == Add(Add(at, Word(5)), SignExtend32(SubSeq(bytes, 2, 5)))

\* C15: after patch_call has returned (size >= 5) the site starts with 0xE9
\* and the little-endian 32-bit displacement that leads from site + 5 to the
\* trampoline, bytes 5..size-1 are 0x90, and the bytes from site + size on
\* are the ones that were there before.
C15_SiteJump ==
    PatchCallReturned =>
        /\ frame.size >= 5
        /\ site[1] = \hE9
        /\ JumpTarget(frame.address, SubSeq(site, 1, 5)) = mmap.addr
        /\ SubSeq(site, 2, 5) = i32_bytes(Sub(mmap.addr, Add(frame.address, Word(5))))
        /\ \A i \in 6..frame.size : site[i] = \h90
        /\ \A i \in (frame.size + 1)..SiteLen : site[i] = frame.before[i]

\* C15 witness: a patch longer than the jump, the trampoline below the site.
C15_Witness ==
    /\ PatchCallReturned
    /\ frame.size > 5
    /\ site[5] >= 128
    /\ site[6] = \h90

\* C16: the trampoline ends with a five-byte 0xE9 jump whose displacement
\* leads from the end of that jump to site + size, whatever save_overwritten
\* and the return channel are.
C16_JumpBack ==
    PatchCallReturned =>
        LET n    == Len(mmap.bytes)
            last5 == SubSeq(mmap.bytes, n - 4, n)
            at   == Add(mmap.addr, Word(n - 5))
        IN  /\ n >= 5
            /\ last5[1] = \hE9
            /\ JumpTarget(at, last5) = Add(frame.address, Word(frame.size))
            /\ SubSeq(last5, 2, 5) =
                   i32_bytes(Sub(Add(frame.address, Word(frame.size)), Add(at, Word(5))))

\* C16 witness: a trampoline without the overwritten bytes and without the
\* RAX pair, mapped above the site.
C16_Witness ==
    /\ PatchCallReturned
    /\ ~frame.save_overwritten
    /\ frame.allow_return = "Rax"
    /\ mmap.bytes[Len(mmap.bytes)] >= 128

\* C17: with save_overwritten the trampoline starts with the n bytes that
\* were at the site when patch_call was called, the Patch holds them as
\* overwritten with size n, and the snapshot was taken while the site still
\* held them.
C17_Overwritten ==
    /\ (frame.op = "patch_call" /\ pc \in {"relax", "snapshot"}) => site = frame.before
    /\ (frame.op = "patch_call" /\ pc \notin {"idle", "relax", "snapshot"}) =>
           frame.overwritten = SubSeq(frame.before, 1, frame.size)
    /\ (PatchCallReturned /\ frame.save_overwritten) =>
           /\ SubSeq(mmap.bytes, 1, frame.size) = SubSeq(frame.before, 1, frame.size)
           /\ patch.overwritten = SubSeq(frame.before, 1, frame.size)
           /\ patch.size = frame.size

\* C17 witness: the dead-beef pattern was saved and the site no longer holds it.
C17_Witness ==
    /\ PatchCallReturned
    /\ frame.save_overwritten
    /\ frame.size = MaxSize
    /\ SubSeq(frame.before, 1, 4) = DEAD_BEEF
    /\ SubSeq(site, 1, frame.size) # patch.overwritten

\* C20: after overwrite has returned the site holds the data, the Patch holds
\* the bytes that were there before with the length of the data as size and
\* no mapping, no mapping was made, and the bytes after the data are the ones
\* that were there before.
C20_Overwrite ==
    OverwriteReturned =>
        LET n == Len(frame.data)
        IN  /\ SubSeq(site, 1, n) = frame.data
            /\ patch.overwritten = SubSeq(frame.before, 1, n)
            /\ patch.size = n
            /\ patch.mmap = "None"
            /\ ~mmap.mapped
            /\ \A i \in (n + 1)..SiteLen : site[i] = frame.before[i]
            /\ Len(site) = SiteLen

\* C20 witness: six NOPs were written over other bytes.
C20_Witness ==
    /\ OverwriteReturned
    /\ frame.data = <<\h90, \h90, \h90, \h90, \h90, \h90>>
    /\ patch.overwritten # frame.data
    /\ site[7] # \h90

\* The instructions of the trampoline from offset off on, in the order in
\* which they run, each with the offset it stands at.
RECURSIVE Disassemble(_, _)
Disassemble(bytes, off) ==
    IF off >= Len(bytes)
    THEN <<>>
    ELSE LET i == Decode(bytes, off)
         IN  <<[op |-> i.op, reg |-> i.reg, at |-> off]>> \o
             (IF i.op \in {"jmp", "bad"} THEN <<>>
              ELSE Disassemble(bytes, IF i.op = "jmp_short" THEN off + i.len + i.disp
                                      ELSE off + i.len))

\* The offset at which the code of the trampoline starts.
CodeStart == IF frame.save_overwritten THEN frame.size ELSE 0

\* C18: the trampoline saves and restores RAX exactly when the return channel
\* is not Rax and XMM0 exactly when it is not Xmm0; RCX, RDX, R8-R11 and
\* XMM1-XMM5 are saved and restored for every return channel; and the bytes
\* FF 15 02 00 00 00 EB 08 followed by the pointer to the injected routine
\* stand after every save and before every restore.
C18_Layout ==
    PatchCallReturned =>
        LET code == Disassemble(mmap.bytes, CodeStart)
            Has(op, reg) == \E k \in DOMAIN code : code[k].op = op /\ code[k].reg = reg
            calls == {k \in DOMAIN code : code[k].op = "call"}
        IN  /\ \A k \in DOMAIN code : code[k].op # "bad"
            /\ Has("push", "RAX") <=> frame.allow_return # "Rax"
            /\ Has("pop", "RAX")  <=> frame.allow_return # "Rax"
            /\ Has("save_xmm", "XMM0") <=> frame.allow_return # "Xmm0"
            /\ Has("load_xmm", "XMM0") <=> frame.allow_return # "Xmm0"
            /\ \A r \in VolatileGpr \ {"RAX"} : Has("push", r) /\ Has("pop", r)
            /\ \A x \in VolatileXmm \ {"XMM0"} : Has("save_xmm", x) /\ Has("load_xmm", x)
            /\ Cardinality(calls) = 1
            /\ \A c \in calls :
                 /\ SubSeq(mmap.bytes, code[c].at + 1, code[c].at + 16)
                        = CALL_BYTES \o frame.function
                 /\ \A k \in DOMAIN code :
                      /\ code[k].op \in {"push", "sub_rsp", "save_xmm"} => k < c
                      /\ code[k].op \in {"pop", "add_rsp", "load_xmm"} => k > c

\* C18 witness: a trampoline for the Xmm0 channel, behind the overwritten
\* bytes.
C18_Witness ==
    /\ PatchCallReturned
    /\ frame.allow_return = "Xmm0"
    /\ frame.save_overwritten
    /\ Len(Disassemble(mmap.bytes, CodeStart)) > 20

Reverse(s) == [i \in 1..Len(s) |-> s[Len(s) + 1 - i]]

IsGpr(r) == r \in VolatileGpr

IsXmm1to5(r) == r \in VolatileXmm \ {"XMM0"}

\* The registers the trampoline is to bring back for a return channel.
Preserved(allow_return) ==
    (VolatileGpr \cup VolatileXmm)
        \ ((IF allow_return = "Rax" THEN {"RAX"} ELSE {})
           \cup (IF allow_return = "Xmm0" THEN {"XMM0"} ELSE {}))

\* The run ended at the jump back with the stack pointer and the preserved
\* registers as they were at entry.
RunBalanced ==
    /\ ~cpu.out.fault
    /\ cpu.out.rsp = 0
    /\ cpu.out.target = Add(frame.address, Word(frame.size))
    /\ cpu.out.called = <<frame.function>>
    /\ \A r \in Preserved(frame.allow_return) : cpu.out.regs[r] = EntryValue(r)

C21_RelaxedAndRestored ==
    [][/\ site' # site =>
            prot = "PAGE_EXECUTE_READWRITE" /\ prot' = "PAGE_EXECUTE_READWRITE"
       /\ pc' \in {"done", "panic"} => prot' = frame'.prot_before]_vars

\* ------------------------------------------------------------- discovery
\* The number of steps of the allocation granularity in a distance below
\* 4 GiB.
StepsIn(d) == d[3] + 256 * d[4]

\* The unmapped addresses among address - 2 GiB + g, address - 2 GiB + 2g,
\* ..., up to the one `top` steps above the first.
UnmappedUpTo(address, top) ==
    {a \in areas :
        LET d == Sub(a, CaveAddress(address, 0))
        IN  IsStep(d) /\ (\A i \in 5..8 : d[i] = 0) /\ StepsIn(d) <= top}

\* The result is the lowest unmapped address among those up to `top`, and
\* None when there is none.
FirstUnmappedUpTo(address, top, result) ==
    LET free == UnmappedUpTo(address, top)
    IN  IF free = {}
        THEN ~result.found
        ELSE /\ result.found
             /\ result.address \in free
             /\ \A a \in free :
                   StepsIn(Sub(a, CaveAddress(address, 0)))
                     >= StepsIn(Sub(result.address, CaveAddress(address, 0)))

C24_Aligned ==
    (scan.called /\ scan.result.found) => IsStep(scan.result.address)

\* --------------------------------------------------------------------- CVec
\* C25: after CVec::empty() and k pushes, len() is k and the items read from
\* items to items_end are the pushed ones in the order of the pushes; with no
\* push the three pointers are null and len() is 0.  No push writes outside
\* the block of the vector; a push that does not return is one whose
\* allocation failed.
C25_LenAndOrder ==
    /\ cstatus # "undefined"
    /\ cstatus = "ok" =>
          /\ len(cvec) = Len(pushed)
          /\ vec_from(cvec, c_heap) = pushed
          /\ pushed = <<>> =>
                /\ cvec.items = null
                /\ cvec.items_end = null
                /\ cvec.items_rsv_end = null

\* MaxPush pushes of different items returned, and the block has moved.
C25_Witness ==
    /\ cstatus = "ok"
    /\ Len(pushed) = MaxPush
    /\ pushed[1] # pushed[2]
    /\ cvec.items # 256

Capacity(v) == (v.items_rsv_end - v.items) \div SizeOfT

Max(a, b) == IF a >= b THEN a ELSE b

\* The blocks of the C heap are the same before and after the step.
SameBlocks ==
    \A b \in Bases :
        c_heap'[b].used = c_heap[b].used /\ c_heap'[b].size = c_heap[b].size

\* C26: a push that returns reallocates only when items_end is
\* items_rsv_end, the capacity is then max(1, 2 x the old capacity), which
\* makes it one of 1, 2, 4, 8, ..., and items <= items_end <= items_rsv_end
\* holds after it.
C26_CapacityDoubles ==
    [][(pushed' # pushed) =>
          /\ IF cvec.items_end = cvec.items_rsv_end
             THEN Capacity(cvec') = Max(1, 2 * Capacity(cvec))
             ELSE Capacity(cvec') = Capacity(cvec) /\ cvec'.items = cvec.items
                    /\ SameBlocks
          /\ Capacity(cvec') \in {2 ^ n : n \in 0..MaxPush}
          /\ cvec'.items <= cvec'.items_end
          /\ cvec'.items_end <= cvec'.items_rsv_end]_vars

\* The capacity has reached 8 with five items.
C26_Witness ==
    /\ cstatus = "ok"
    /\ Capacity(cvec) = 8
    /\ len(cvec) = 5

\* ------------------------------------------------------------------ library
\* The build string of the host version a build is for: 1.151 with feature
\* 1_151, 1.163 with feature 1_163 and with no version feature.
BuildString(build) == IF "1_151" \in build THEN Steam_1_151 ELSE Steam_1_163

\* C27: version(s) returns true if and only if s is the build string of the
\* host version the library was built for, 1.163 being the version of a
\* build with no version feature.
C27_VersionMatches ==
    vcall.called =>
        ((~vcall.out.panic /\ vcall.out.result)
            <=> (vcall.version = BuildString(feature)))

\* --------------------------------------------------------------------- init
\* patch_call ended because no cave was found or the mapping was refused.
CaveFailed ==
    /\ frame.op = "patch_call"
    /\ pc = "panic"
    /\ ~frame.memory_cave.found \/ ~mmap.mapped

\* C22: when no cave is found or the mapping is refused, the bytes of the
\* site are as they were and init is not ended by it: it goes on with the
\* other features and returns true.
C22_FeatureSkipped ==
    CaveFailed => (site = frame.before /\ ipc # "aborted")

\* Config::load returned an error.
LoadFailed == log # <<>> /\ log[1] = "Failed to load config"

\* The routines whose patches were made.
InstalledRoutines == {p.function : p \in installed}

\* C28: when the configuration cannot be loaded, init uses the default
\* record, tries to write it to the file, applies the features the default
\* record enables (the arcade zoom) and no other, and returns true, also when
\* the file could not be written.
C28_DefaultsOnFailure ==
    LoadFailed =>
        /\ config = Config_default
        /\ log[3] \in {"Default config saved", "Failed to save default config"}
        /\ log[3] = "Default config saved" =>
              file = [kind |-> "json", value |-> Config_default]
        /\ frame.op # "overwrite"
        /\ frame.op = "patch_call" => frame.function # fn_set_dumpable
        /\ ipc # "aborted"
        /\ ipc = "returned_true" =>
              InstalledRoutines = {fn_set_zoom_level, fn_calc_zoom_value}

\* C29: in arcade mode calc_zoom_value returns ZOOM_LEVELS[i] for a host zoom
\* index i below the length of the list and 1.0 for every other index, the
\* length itself included; it never indexes the list out of bounds.
C29_ZoomValueInBounds ==
    (hcall.routine = "calc_zoom_value" /\ hcall.is_in_arcade) =>
        /\ ~hcall.out.panic
        /\ hcall.out.value =
              IF hcall.zoom_value < Len(zoom.ZOOM_LEVELS)
              THEN zoom.ZOOM_LEVELS[hcall.zoom_value + 1]
              ELSE F32_ONE

ZoomGlobals == {"MIN_ZOOM", "MAX_ZOOM", "ZOOM_LEVELS"}

\* patch_call was entered for a routine.
EnteredFor(function) ==
    \/ function \in InstalledRoutines
    \/ frame.op = "patch_call" /\ frame.function = function

\* The write of a global precedes the patch_call for the routine that reads
\* it.
WrittenBeforePatch ==
    /\ EnteredFor(fn_set_zoom_level) =>
          zoom.writes["MIN_ZOOM"] = 1 /\ zoom.writes["MAX_ZOOM"] = 1
    /\ EnteredFor(fn_calc_zoom_value) => zoom.writes["ZOOM_LEVELS"] = 1

\* C30, as stated: init writes each of MIN_ZOOM, MAX_ZOOM and ZOOM_LEVELS
\* exactly once, before the patch_call that makes the routine reading it
\* reachable, and nothing writes them once init has returned.
C30_WrittenOnce ==
    [][/\ ipc' = "returned_true" => \A g \in ZoomGlobals : zoom'.writes[g] = 1
       /\ WrittenBeforePatch'
       /\ ipc = "returned_true" => zoom' = zoom]_vars

\* C30, amended: init writes each of MIN_ZOOM, MAX_ZOOM and ZOOM_LEVELS at
\* most once, and not at all when the arcade zoom is disabled; the write has
\* happened exactly once when the patch_call for the routine reading the
\* global is entered; nothing writes them once init has returned.
C30_WrittenOnceWhenEnabled ==
    [][/\ \A g \in ZoomGlobals : zoom'.writes[g] <= 1
       /\ (ipc' = "returned_true" /\ ~config'.enable_arcade_zoom) =>
             \A g \in ZoomGlobals : zoom'.writes[g] = 0
       /\ (ipc' = "returned_true" /\ config'.enable_arcade_zoom) =>
             \A g \in ZoomGlobals : zoom'.writes[g] = 1
       /\ WrittenBeforePatch'
       /\ ipc = "returned_true" => zoom' = zoom]_vars

\* init has returned with the arcade zoom patched in, and the host has read
\* a zoom level from the list since.
C30_Witness ==
    /\ ipc = "returned_true"
    /\ \A g \in ZoomGlobals : zoom.writes[g] = 1
    /\ hcall.routine = "calc_zoom_value"
    /\ hcall.is_in_arcade
    /\ ~hcall.out.panic
    /\ hcall.out.value = 140

\* ------------------------------------------------------ links of the tree
\* The three link fields of node n.
LinksOf(n) == {heap[n].left, heap[n].parent, heap[n].right}

\* C33: in every state reached by insert calls from new(), every left, parent
\* and right field of every node is non-null (the address of a node) and is the
\* sentinel or
\* a non-sentinel node of the same tree (one reached from the root); a
\* non-sentinel node n has n.parent = p, p a non-sentinel node, exactly when
\* p.left = n or p.right = n; and n.parent is the sentinel exactly when
\* sentinel.parent = n.
C33_LinksConsistent ==
    /\ \A n \in DOMAIN heap :
         /\ LinksOf(n) \subseteq DOMAIN heap
         /\ LinksOf(n) \subseteq ({sentinel} \cup Reachable(heap, Root))
    /\ Nodes = Reachable(heap, Root)
    /\ \A n \in Nodes, p \in Nodes :
         (heap[n].parent = p) <=> (heap[p].left = n \/ heap[p].right = n)
    /\ \A n \in Nodes : (heap[n].parent = sentinel) <=> (Root = n)

\* C33 witness: a full tree, the latest insert having rotated, in which some
\* node has a non-sentinel parent, a non-sentinel left child and a
\* non-sentinel right child.
C33_Witness ==
    /\ InsertReturned /\ ~last.existed
    /\ size = MaxKey
    /\ last.rotations # <<>>
    /\ \E n \in Nodes : LinksOf(n) \subseteq Nodes

\* C34: for any sequence of inserts from new(), insert_fixup calls rotate_left
\* only on a (non-sentinel) node whose right child is not the sentinel and
\* rotate_right only on one whose left child is not the sentinel, so that no
\* rotation writes the sentinel's left or right field (a rotation writes a
\* link of the lifted child, of the node itself and of its non-sentinel
\* parent); and the sentinel, and no other node, stays black with is_sentinel
\* set.
C34_RotationsOnRealChild ==
    /\ \A i \in 1..Len(last.rotations) :
         /\ last.rotations[i].self # sentinel
         /\ last.rotations[i].child # sentinel
    /\ heap[sentinel].is_sentinel /\ ~heap[sentinel].is_red
    /\ \A n \in DOMAIN heap : heap[n].is_sentinel => n = sentinel

\* C34 witness: an insert whose fix-up called both rotations, the inner one
\* and the outer one, on a tree that already held five nodes.
C34_Witness ==
    /\ InsertReturned
    /\ size > 5
    /\ {last.rotations[i].fn : i \in 1..Len(last.rotations)}
           = {"rotate_left", "rotate_right"}

\* C35: every insert call on a tree built by inserts from new(), and on a tree
\* that is valid except for a red root, returns without panicking: neither
\* grandparent().unwrap() after the inner rotation meets None, the descent
\* ended at an equal key (the value was overwritten) or at a sentinel link
\* (a node was added), and the fix-up loop ran a finite number of iterations,
\* at most the number of nodes on the longest path from the root.
C35_InsertReturns ==
    /\ ~panicked
    /\ last.op = "insert" =>
         /\ last.existed \/ size = Cardinality(Nodes)
         /\ \E l \in PathLengths(heap, Root) : last.iterations <= l

\* C35 witness: an insert into a tree with a red root whose fix-up loop ran
\* twice and rotated.
C35_Witness ==
    /\ InsertReturned /\ ~last.existed
    /\ last.red_root
    /\ last.iterations >= 2
    /\ last.rotations # <<>>

\* ------------------------------------------------- the order of the install
\* The site holds the five-byte jump to the page mapped for the trampoline.
SiteHoldsJump ==
    /\ frame.op = "patch_call"
    /\ mmap.mapped
    /\ site[1] = \hE9
    /\ JumpTarget(frame.address, SubSeq(site, 1, 5)) = mmap.addr

\* The mapped page holds a whole trampoline and is executable: both blocks of
\* 44 register bytes and the sixteen bytes of the call to the function are
\* there, and it ends in the five-byte jump to address + size.
TrampolineReady ==
    /\ mmap.mapped
    /\ mmap.exec
    /\ LET n == Len(mmap.bytes)
       IN  /\ n >= Len(SAVE_REGISTERS) + 16 + Len(LOAD_REGISTERS) + 5
           /\ \E i \in 0..(n - 16) :
                SubSeq(mmap.bytes, i + 1, i + 16) = CALL_BYTES \o frame.function
           /\ \E i \in 0..(n - 16) :
                SubSeq(mmap.bytes, i + 1, i + 44) = SAVE_REGISTERS
           /\ \E i \in 16..(n - 44) :
                SubSeq(mmap.bytes, i + 1, i + 44) = LOAD_REGISTERS
           /\ mmap.bytes[n - 4] = \hE9
           /\ JumpTarget(Add(mmap.addr, Word(n - 5)), SubSeq(mmap.bytes, n - 4, n))
                  = Add(frame.address, Word(frame.size))

\* C37 as stated: at every moment, during and after patch_call, at which the
\* site holds the jump to the cave, the cave holds the complete trampoline and
\* is executable.
C37_ReadyWheneverJumpSet == SiteHoldsJump => TrampolineReady

\* C37 amended: at every moment after patch_call has returned the site holds
\* the jump to the cave and the cave holds the complete trampoline and is
\* executable; the jump is written to the site before the trampoline is
\* built, so from then until patch_call returns the site leads to a page that
\* is not executable yet.
C37_ReadyOnReturn ==
    /\ PatchCallReturned => (SiteHoldsJump /\ TrampolineReady)
    /\ (SiteHoldsJump /\ pc \in {"nops", "restore", "build", "make_exec"})
           => ~mmap.exec

\* C37 witness: patch_call has returned with the site's bytes kept at the head
\* of the trampoline, the site leading to an executable page.
C37_Witness ==
    /\ PatchCallReturned
    /\ frame.save_overwritten
    /\ SiteHoldsJump
    /\ TrampolineReady

\* ----------------------------------------------------- patches are leaked
\* C31: on every path through init every Patch that patch_call or overwrite
\* returns is forgotten, not dropped (it joins the patches that stay for the
\* life of the process, and none ever leaves them), and the page mapped for an
\* installed trampoline is never unmapped: no address becomes unmapped again
\* and no address of the page of a forgotten Patch is unmapped.
C31_PatchesLeaked ==
    [][/\ areas' \subseteq areas
       /\ installed \subseteq installed'
       /\ (pc = "done" /\ ipc' # ipc) => ReturnedPatch \in installed'
       /\ (areas' # areas \/ installed' # installed) =>
              \A p \in installed' : PageOf(p) \cap areas' = {}]_vars

\* C31 witness: init has returned true with the three trampolines of the
\* anti-wobble and the arcade zoom forgotten, each one's page still mapped.
C31_Witness ==
    /\ ipc = "returned_true"
    /\ Cardinality({p \in installed : p.mmap = "Some"}) = 3
    /\ \A p \in installed : PageOf(p) # {} /\ PageOf(p) \cap areas = {}

\* ------------------------------------------------------- the displacements
\* The sizes the callers give patch_call (dumpable 6, patch_zoom 20 or 14,
\* patch_levels 5) and the sizes followed.
CallerSizes == PatchSizes \cup {5, 6} \cup {override_count(b) : b \in Builds}

\* C36: for every site and every cave search_memory_cave returns for it, with
\* the page mapped at the cave or at the start of its allocation block, the
\* displacement of the site jump (mem - address - 5) fits in an i32, and so
\* does that of the return jump (address + size - (mem + offset) - 5) for
\* every size, save_overwritten and allow_return (looked at when the page
\* has just been mapped); hence the only panic met after the mapping is that
\* of a size below five, never 'Jump offset greater than 32 bits'.
C36_DisplacementsFit ==
    (frame.op = "patch_call" /\ mmap.mapped) =>
        /\ FitsI32(Sub(Sub(mmap.addr, frame.address), Word(5)))
        /\ pc = "panic" => frame.size < 5
        /\ pc = "jump" =>
             /\ ~site_jump(site, frame.address, mmap.addr).panic
             /\ \A sz \in CallerSizes, save \in BOOLEAN, r \in ReturnType :
                  ~trampoline([frame EXCEPT !.size = sz,
                                             !.save_overwritten = save,
                                             !.allow_return = r,
                                             !.overwritten = [i \in 1..sz |-> NOP]],
                              mmap.addr).panic

\* C36 witness: patch_call has returned with the cave at the last step of the
\* range, just below address + 2 GiB.
C36_Witness ==
    /\ PatchCallReturned
    /\ frame.memory_cave.address = CaveAddress(frame.address, LastCaveStep)
    /\ site[5] = 127

\* ------------------------------------------------ the size of a trampoline
\* The number of bytes of the page mapped for a trampoline.
PageBytes == page_size[1] + 256 * page_size[2] + 65536 * page_size[3]

\* The offset after the last write of patch_call to the page: the site's
\* bytes when they are kept, the save block, the sixteen bytes of the call,
\* the restore block, the five bytes of the jump.
FinalOffset(sz, save_overwritten, allow_return) ==
    LET rax  == IF allow_return # "Rax" THEN 1 ELSE 0
        xmm0 == IF allow_return # "Xmm0" THEN 5 ELSE 0
    IN  (IF save_overwritten THEN sz ELSE 0)
        + (rax + Len(SAVE_REGISTERS) + xmm0)
        + 16
        + (xmm0 + Len(LOAD_REGISTERS) + rax)
        + 5

\* C38: the trampoline patch_call writes ends within the one page mapped for
\* it: the bytes written are size bytes if kept, the save block, the call,
\* the restore block and the jump, and for every size, save_overwritten and
\* return channel of the callers their number is at most the page size.
C38_FitsInPage ==
    /\ (frame.op = "patch_call" /\ pc \in {"make_exec", "done"}) =>
         /\ Len(mmap.bytes)
              = FinalOffset(frame.size, frame.save_overwritten, frame.allow_return)
         /\ Len(mmap.bytes) <= PageBytes
    /\ \A sz \in CallerSizes, save \in BOOLEAN, r \in ReturnType :
         FinalOffset(sz, save, r) <= PageBytes

\* C38 witness: the longest trampoline followed, with the longest site kept
\* and both RAX and XMM0 saved and restored.
C38_Witness ==
    /\ PatchCallReturned
    /\ frame.size = MaxSize
    /\ frame.save_overwritten
    /\ frame.allow_return = "None"
    /\ Len(mmap.bytes) = MaxSize + 121

\* ---------------------------------------------------------------- C32
\* What a call has installed once it is over: the bytes at its site are
\* those the call writes on the bytes it found, and for patch_call the
\* mapping holds the trampoline and is executable.
ThreadInstalled(th) ==
    IF th.frame.op = "overwrite"
    THEN th.site = write_bytes(th.frame.before, 0, th.frame.data)
    ELSE /\ th.site =
              write_bytes(site_jump(th.frame.before, th.frame.address,
                                    th.mmap.addr).bytes,
                          5, [i \in 1..(th.frame.size - 5) |-> NOP])
         /\ th.mmap.bytes = trampoline(th.frame, th.mmap.addr).bytes
         /\ th.mmap.exec

\* C32: when two calls of patch_call or overwrite run at the same time on
\* sites that do not overlap, no interleaving makes a write of either call
\* fault, and once both have returned both patches are installed and the
\* page of each site has the protection it had before either call started.
C32_ConcurrentlySafe ==
    race.on =>
        /\ \A t \in Threads : race.th[t].pc # "fault"
        /\ (\A t \in Threads : race.th[t].pc = "done") =>
              /\ \A t \in Threads : ThreadInstalled(race.th[t])
              /\ race.prot = race.before

====
